---- MODULE Spec2Model ----
(***************************************************************************)
(* Model of the identifier generator (src/src/lib/utils/uuid.ts) and of    *)
(* the cron expression engine (src/src/lib/utils/regex.ts, lines 370-732). *)
(*                                                                         *)
(* Text is a sequence of one-character strings.  A JavaScript number that  *)
(* may exceed 31 bits (a millisecond timestamp, up to 2^53) is a pair of   *)
(* limbs [hi, lo] standing for hi * 2^24 + lo with 0 <= lo < 2^24.         *)
(***************************************************************************)
EXTENDS Integers, Sequences, FiniteSets, TLC

VARIABLES
    idOp,        \* the generator function last called, "none" before a call
    idType,      \* generateMultiple's type argument
    idCount,     \* generateMultiple's count argument
    idOptions,   \* generateMultiple's FormatOptions argument
    draws,       \* per identifier: what Date.now() and the random source gave
    output,      \* the identifiers the call returned
    cronOp,      \* the cron function last called, "none" before a call
    cronExpr,    \* its expression argument
    cronCount,   \* its nextRunCount option
    cronResult,  \* the CronParseResult of parseCronExpression
    expanded,    \* the result of expandSpecialString
    libCalls,    \* how often the call used each external capability
    specialResult,    \* the result of isSpecialString
    validationResult, \* the result of validateCronExpression
    detected,         \* the result of detectCronFormat
    escaped,          \* whether the call ended by throwing to its caller
    buildOp,          \* the builder function last called, "none" before a call
    buildFields,      \* its FieldValue arguments
    buildFormat,      \* its format argument
    built,            \* the text buildFieldValue or buildCronExpression returned
    defaultValues,    \* the list getDefaultFieldValues returned
    mounted,            \* whether the cron page has run its effects once
    activeTab,          \* the cron page's tab, "parser" or "builder"
    pageExpression,     \* the cron page's expression, bound to the input
    pageNextRunCount,   \* the cron page's nextRunCount, bound to the select
    parseResult,        \* the cron page's parseResult, Absent for null
    builderFormat,      \* the builder's format
    fieldValues,        \* the builder's FieldValue list
    builderExpression,  \* the text the builder shows
    builderParseResult, \* the parse the builder's preview shows
    rxOp,               \* where the regex tester's caller is, "none" before a call
    rxInput,            \* testRegex's input argument
    rxPattern,          \* what its pattern is to the regular expression engine
    rxGlobal,           \* whether its flags include 'g'
    lastIndex,          \* regex.lastIndex inside testRegex
    iterations,         \* testRegex's iterations
    rxMatches,          \* testRegex's matches
    rxResult,           \* the RegexResult returned
    rxHtml,             \* the text generateHighlightedHtml returned
    uuidMounted,        \* whether the UUID page has run its effect once
    uuidTab,            \* the UUID page's activeTab
    uuidType,           \* its uuidType
    uuidCount,          \* its count
    uuidUppercase,      \* its uppercase
    uuidHyphens,        \* its hyphens
    uuidOutput,         \* its output
    copySuccess,        \* its copySuccess
    extractInput,       \* its extractInput
    extractResult,      \* its extractResult, Absent for null
    copiedField,        \* its copiedField, Absent for null
    clipboardWrites,    \* the copies awaiting the clipboard's answer
    timers,             \* the pending setTimeout callbacks with their due times
    now,                \* the time, in steps of TimeStep milliseconds
    lastHandler,        \* the handler that ran last
    copiedAt,           \* history: the field copied last and the time it was set
    generatedFrom       \* history: the generator and clock the extract input came from

vars == <<idOp, idType, idCount, idOptions, draws, output,
          cronOp, cronExpr, cronCount, cronResult, expanded, libCalls,
          specialResult, validationResult, detected, escaped,
          buildOp, buildFields, buildFormat, built, defaultValues,
          mounted, activeTab, pageExpression, pageNextRunCount, parseResult,
          builderFormat, fieldValues, builderExpression, builderParseResult,
          rxOp, rxInput, rxPattern, rxGlobal, lastIndex, iterations, rxMatches,
          rxResult, rxHtml,
          uuidMounted, uuidTab, uuidType, uuidCount, uuidUppercase, uuidHyphens,
          uuidOutput, copySuccess, extractInput, extractResult, copiedField,
          clipboardWrites, timers, now, lastHandler, copiedAt, generatedFrom>>

idVars == <<idOp, idType, idCount, idOptions, draws, output>>
cronVars == <<cronOp, cronExpr, cronCount, cronResult, expanded, libCalls,
              specialResult, validationResult, detected, escaped>>
buildVars == <<buildOp, buildFields, buildFormat, built, defaultValues>>
pageVars == <<mounted, activeTab, pageExpression, pageNextRunCount, parseResult,
              builderFormat, fieldValues, builderExpression, builderParseResult>>
regexVars == <<rxOp, rxInput, rxPattern, rxGlobal, lastIndex, iterations, rxMatches,
               rxResult, rxHtml>>
uuidPageVars == <<uuidMounted, uuidTab, uuidType, uuidCount, uuidUppercase, uuidHyphens,
                  uuidOutput, copySuccess, extractInput, extractResult, copiedField,
                  clipboardWrites, timers, now, lastHandler, copiedAt, generatedFrom>>

(***************************************************************************)
(* Arithmetic of JavaScript numbers and of its 32-bit bitwise operators.   *)
(***************************************************************************)
Min(a, b) == IF a < b THEN a ELSE b
Max(a, b) == IF a > b THEN a ELSE b

W == 2 ^ 24

Num(hi, lo) == [hi |-> hi, lo |-> lo]

NumLess(a, b) == a.hi < b.hi \/ (a.hi = b.hi /\ a.lo < b.lo)

\* a + k for a small non-negative integer k
NumAdd(a, k) == Num(a.hi + ((a.lo + k) \div W), (a.lo + k) % W)

\* the integer part of a / 2^k (the division itself is exact in a double)
RECURSIVE FloorDivPow2(_, _)
FloorDivPow2(a, k) ==
    IF k > 24
    THEN FloorDivPow2(Num(a.hi \div W, a.hi % W), k - 24)
    ELSE Num(a.hi \div (2 ^ k), (a.hi % (2 ^ k)) * (2 ^ (24 - k)) + (a.lo \div (2 ^ k)))

\* ToInt32: the low 32 bits, read as a signed two's complement integer
ToInt32(a) ==
    LET top == a.hi % 256
    IN  IF top >= 128 THEN (top - 256) * W + a.lo ELSE top * W + a.lo

\* x & m for a mask 0 <= m < 2^31 (x in two's complement)
RECURSIVE BitAnd(_, _)
BitAnd(x, m) ==
    IF m = 0 THEN 0
    ELSE (x % 2) * (m % 2) + 2 * BitAnd(x \div 2, m \div 2)

\* x | y for non-negative operands
RECURSIVE BitOr(_, _)
BitOr(x, y) ==
    IF x = 0 THEN y
    ELSE IF y = 0 THEN x
    ELSE Max(x % 2, y % 2) + 2 * BitOr(x \div 2, y \div 2)

ShiftRight(x, k) == x \div (2 ^ k)
ShiftLeft(x, k) == x * (2 ^ k)

(***************************************************************************)
(* Text.                                                                   *)
(***************************************************************************)
LowerLetters == <<"a","b","c","d","e","f","g","h","i","j","k","l","m",
                  "n","o","p","q","r","s","t","u","v","w","x","y","z">>
UpperLetters == <<"A","B","C","D","E","F","G","H","I","J","K","L","M",
                  "N","O","P","Q","R","S","T","U","V","W","X","Y","Z">>
Digits == <<"0","1","2","3","4","5","6","7","8","9">>

IndexOf(seq, c) == IF \E i \in 1..Len(seq) : seq[i] = c
                   THEN CHOOSE i \in 1..Len(seq) : seq[i] = c
                   ELSE 0

\* the characters text is made of in this model
Punctuation == <<"-", "@", " ", "\t", "*", "/", ",", "_">>
Range(seq) == {seq[i] : i \in 1..Len(seq)}
Alphabet == Range(LowerLetters) \cup Range(UpperLetters) \cup Range(Digits)
            \cup Range(Punctuation)

\* String.prototype.toUpperCase and toLowerCase, character by character
UpperCaseMap ==
    [c \in Alphabet |-> IF IndexOf(LowerLetters, c) > 0
                        THEN UpperLetters[IndexOf(LowerLetters, c)] ELSE c]
LowerCaseMap ==
    [c \in Alphabet |-> IF IndexOf(UpperLetters, c) > 0
                        THEN LowerLetters[IndexOf(UpperLetters, c)] ELSE c]

ToUpperChar(c) == UpperCaseMap[c]
ToLowerChar(c) == LowerCaseMap[c]

ToUpperCase(s) == [i \in 1..Len(s) |-> ToUpperChar(s[i])]
ToLowerCase(s) == [i \in 1..Len(s) |-> ToLowerChar(s[i])]

\* s.slice(from, to) for 0 <= from, to
Slice(s, from, to) == SubSeq(s, from + 1, Min(to, Len(s)))

\* s.replace(/-/g, '')
RemoveHyphens(s) == SelectSeq(s, LAMBDA c : c # "-")

Includes(s, c) == \E i \in 1..Len(s) : s[i] = c

HexDigits == Digits \o <<"a","b","c","d","e","f">>

\* b.toString(16) for a byte b
ToString16(b) == IF b < 16 THEN <<HexDigits[b + 1]>>
                 ELSE <<HexDigits[(b \div 16) + 1], HexDigits[(b % 16) + 1]>>

\* s.padStart(2, '0')
PadStart2(s) == IF Len(s) >= 2 THEN s ELSE <<"0">> \o s

RECURSIVE BytesToHex(_, _, _)
BytesToHex(bytes, i, n) ==
    IF i >= n THEN <<>>
    ELSE PadStart2(ToString16(bytes[i])) \o BytesToHex(bytes, i + 1, n)

Hyphenate(hex) ==
    Slice(hex, 0, 8) \o <<"-">> \o Slice(hex, 8, 12) \o <<"-">> \o
    Slice(hex, 12, 16) \o <<"-">> \o Slice(hex, 16, 20) \o <<"-">> \o
    Slice(hex, 20, 32)

(***************************************************************************)
(* The identifier generator.                                               *)
(***************************************************************************)
\* crypto.randomUUID(): 16 random bytes, version 4, variant 10, lower-case
generateUUIDv4(random) ==
    LET bytes == [i \in 0..15 |->
                    CASE i = 6 -> BitOr(BitAnd(random[6], 15), 64)
                      [] i = 8 -> BitOr(BitAnd(random[8], 63), 128)
                      [] OTHER -> random[i]]
    IN  Hyphenate(BytesToHex(bytes, 0, 16))

\* mutant: timestamp >> e, a 32-bit shift whose count is taken modulo 32
TimestampByteShifted(timestamp, e) ==
    BitAnd(ShiftRight(ToInt32(timestamp), e % 32), 255)

\* mutant: a clock value of 2^48 or more stored as 2^48 - 1
TimestampByteSaturated(timestamp, e) ==
    IF timestamp.hi >= W THEN 255
    ELSE BitAnd(ToInt32(FloorDivPow2(timestamp, e)), 255)

\* bytes[k] = (timestamp / 2 ** e) & 0xff
TimestampByte(timestamp, e) == BitAnd(ToInt32(FloorDivPow2(timestamp, e)), 255)

\* mutant: the version digit left as drawn
VersionByteKept(b) == b

VersionByte(b) == BitOr(BitAnd(b, 15), 112)

\* mutant: the variant bits set without clearing the random ones
VariantByteUnmasked(b) == BitOr(b, 128)

VariantByte(b) == BitOr(BitAnd(b, 63), 128)

\* mutant: the timestamp bytes stored least significant first
UUIDv7BytesLittleEndian(timestamp, random) ==
    [i \in 0..15 |->
        CASE i = 5 -> TimestampByte(timestamp, 40)
          [] i = 4 -> TimestampByte(timestamp, 32)
          [] i = 3 -> TimestampByte(timestamp, 24)
          [] i = 2 -> TimestampByte(timestamp, 16)
          [] i = 1 -> TimestampByte(timestamp, 8)
          [] i = 0 -> BitAnd(ToInt32(timestamp), 255)
          [] i = 6 -> BitOr(BitAnd(random[6], 15), 112)
          [] i = 8 -> BitOr(BitAnd(random[8], 63), 128)
          [] OTHER -> random[i]]

UUIDv7Bytes(timestamp, random) ==
    [i \in 0..15 |->
        CASE i = 0 -> TimestampByte(timestamp, 40)
          [] i = 1 -> TimestampByte(timestamp, 32)
          [] i = 2 -> TimestampByte(timestamp, 24)
          [] i = 3 -> TimestampByte(timestamp, 16)
          [] i = 4 -> TimestampByte(timestamp, 8)
          [] i = 5 -> BitAnd(ToInt32(timestamp), 255)
          [] i = 6 -> VersionByte(random[6])
          [] i = 8 -> VariantByte(random[8])
          [] OTHER -> random[i]]

generateUUIDv7(timestamp, random) ==
    Hyphenate(BytesToHex(UUIDv7Bytes(timestamp, random), 0, 16))

ULID_ENCODING ==
    Digits \o <<"A","B","C","D","E","F","G","H","J","K","M","N","P","Q","R",
                "S","T","V","W","X","Y","Z">>

\* mutant: each digit appended instead of prepended
RECURSIVE TimestampPartAppended(_, _)
TimestampPartAppended(ts, n) ==
    IF n = 0 THEN <<>>
    ELSE <<ULID_ENCODING[BitAnd(ToInt32(ts), 31) + 1]>>
         \o TimestampPartAppended(FloorDivPow2(ts, 5), n - 1)

\* the loop of lines 90-93: n characters, least significant digit first
RECURSIVE TimestampPart(_, _)
TimestampPart(ts, n) ==
    IF n = 0 THEN <<>>
    ELSE TimestampPart(FloorDivPow2(ts, 5), n - 1)
         \o <<ULID_ENCODING[BitAnd(ToInt32(ts), 31) + 1]>>

\* the loop of lines 102-110
RECURSIVE RandomPart(_, _, _)
RandomPart(randomBytes, i, part) ==
    IF i >= 10 THEN part
    ELSE LET byte == randomBytes[i]
             first == part \o <<ULID_ENCODING[BitAnd(ShiftRight(byte, 3), 31) + 1]>>
             second ==
                 IF Len(first) < 16
                 THEN first \o
                      <<ULID_ENCODING[
                          BitOr(ShiftLeft(BitAnd(byte, 7), 2),
                                BitAnd(ShiftRight(randomBytes[(i + 1) % 10], 6), 3)) + 1]>>
                 ELSE first
         IN  RandomPart(randomBytes, i + 1, second)

\* mutant: the random part not cut to 16 characters
generateULIDUncut(timestamp, randomBytes) ==
    TimestampPart(timestamp, 10) \o RandomPart(randomBytes, 0, <<>>)

generateULID(timestamp, randomBytes) ==
    TimestampPart(timestamp, 10) \o Slice(RandomPart(randomBytes, 0, <<>>), 0, 16)

\* mutant: the hyphens option read the wrong way round
formatIDHyphensInverted(id, options) ==
    LET hyphened ==
            IF options.hyphens THEN RemoveHyphens(id)
            ELSE IF ~Includes(id, "-") /\ Len(id) = 32 THEN Hyphenate(id)
            ELSE id
    IN  IF options.uppercase THEN ToUpperCase(hyphened) ELSE ToLowerCase(hyphened)

formatID(id, options) ==
    LET hyphened ==
            IF ~options.hyphens THEN RemoveHyphens(id)
            ELSE IF ~Includes(id, "-") /\ Len(id) = 32 THEN Hyphenate(id)
            ELSE id
    IN  IF options.uppercase THEN ToUpperCase(hyphened) ELSE ToLowerCase(hyphened)

CountLimit == 100

\* mutant: the lower clamp left out
SafeCountNoFloor(count) == Min(CountLimit, count)

SafeCount(count) == Max(1, Min(CountLimit, count))

\* one pass of the loop of generateMultiple, given the clock and random draw
GenerateOne(type, options, draw) ==
    LET id == CASE type = "uuidv4" -> generateUUIDv4(draw.random)
                [] type = "uuidv7" -> generateUUIDv7(draw.timestamp, draw.random)
                [] type = "ulid"   -> generateULID(draw.timestamp, draw.random)
    IN  IF type = "ulid"
        THEN (IF options.uppercase THEN ToUpperCase(id) ELSE ToLowerCase(id))
        ELSE formatID(id, options)

generateMultiple(type, count, options, drawn) ==
    [i \in 1..SafeCount(count) |-> GenerateOne(type, options, drawn[i])]

(***************************************************************************)
(* The environment of a generator call: the clock and the random source.   *)
(***************************************************************************)
MaxSmallCount == 3
MaxOverLimit == 1
MaxClockRate == 2

\* values of Date.now() at the first identifier of a call
ClockSamples ==
    { Num(0, 0), Num(0, 1), Num(0, W - 1), Num(127, W - 1), Num(255, W - 1),
      Num(65535, W - 1), Num(106911, 7060224), Num(W - 1, W - 2),
      Num(W, 0), Num(4 * W - 1, W - 1), Num(32 * W - 1, W - 3) }

\* the clock ticks once every rate identifiers (never when rate is 0)
ClockRates == 0..MaxClockRate

\* a random stream: every byte is fill but one, which is val and moves on
\* by one position with each identifier drawn
Seeds == [fill : {0, 255, 165}, val : {1, 90}, shift : {0, 8}]

DrawRandom(seed, i, n) ==
    [j \in 0..(n - 1) |-> IF j = (seed.shift + i - 1) % n THEN seed.val ELSE seed.fill]

DrawTimestamp(clock, rate, i) ==
    NumAdd(clock, IF rate = 0 THEN 0 ELSE (i - 1) \div rate)

Draw(type, clock, rate, seed, i) ==
    [timestamp |-> DrawTimestamp(clock, rate, i),
     random |-> DrawRandom(seed, i, IF type = "ulid" THEN 10 ELSE 16)]

UUIDTypes == {"uuidv4", "uuidv7", "ulid"}
FormatOptions == [uppercase : BOOLEAN, hyphens : BOOLEAN]

LargeCounts == ((CountLimit - 1)..(CountLimit + MaxOverLimit)) \cup {5 * CountLimit}

\* the calls made in the model.  UUID v4 reads no clock; a count below 1
\* is clamped to 1, which is generated with every clock and stream; the
\* clock rate matters from two identifiers on; the large counts are
\* generated with one clock and stream each.
OneClock == Num(W - 1, W - 2)
OneSeed == [fill |-> 165, val |-> 1, shift |-> 8]

GenerateCalls ==
    [type : {"uuidv4"}, count : (-1)..MaxSmallCount, options : FormatOptions,
     clock : {OneClock}, rate : {0}, seed : Seeds]
    \cup
    [type : {"uuidv7", "ulid"}, count : (-1)..0, options : FormatOptions,
     clock : {OneClock}, rate : {0}, seed : {OneSeed}]
    \cup
    [type : {"uuidv7", "ulid"}, count : {1}, options : FormatOptions,
     clock : ClockSamples, rate : {0}, seed : Seeds]
    \cup
    [type : {"uuidv7", "ulid"}, count : 2..MaxSmallCount, options : FormatOptions,
     clock : ClockSamples, rate : ClockRates, seed : Seeds]
    \cup
    [type : UUIDTypes, count : LargeCounts, options : FormatOptions,
     clock : {OneClock}, rate : {MaxClockRate}, seed : {OneSeed}]

(***************************************************************************)
(* The state machine of a caller of the generator.                         *)
(***************************************************************************)
IdIdle ==
    /\ idOp = "none"
    /\ idType = "uuidv4"
    /\ idCount = 5
    /\ idOptions = [uppercase |-> FALSE, hyphens |-> TRUE]
    /\ draws = <<>>
    /\ output = <<>>

CallGenerateMultiple ==
    /\ idOp = "none"
    /\ \E c \in GenerateCalls :
         LET drawn == [i \in 1..SafeCount(c.count) |->
                          Draw(c.type, c.clock, c.rate, c.seed, i)]
         IN  /\ idOp' = "generateMultiple"
             /\ idType' = c.type
             /\ idCount' = c.count
             /\ idOptions' = c.options
             /\ draws' = drawn
             /\ output' = generateMultiple(c.type, c.count, c.options, drawn)
    /\ UNCHANGED <<cronVars, buildVars, pageVars, regexVars, uuidPageVars>>

CallGenerateUUIDv7 ==
    /\ idOp = "none"
    /\ \E clock \in ClockSamples, seed \in Seeds :
         LET draw == Draw("uuidv7", clock, 0, seed, 1)
         IN  /\ idOp' = "generateUUIDv7"
             /\ draws' = <<draw>>
             /\ output' = <<generateUUIDv7(draw.timestamp, draw.random)>>
    /\ UNCHANGED <<idType, idCount, idOptions>>
    /\ UNCHANGED <<cronVars, buildVars, pageVars, regexVars, uuidPageVars>>

CallGenerateULID ==
    /\ idOp = "none"
    /\ \E clock \in ClockSamples, seed \in Seeds :
         LET draw == Draw("ulid", clock, 0, seed, 1)
         IN  /\ idOp' = "generateULID"
             /\ draws' = <<draw>>
             /\ output' = <<generateULID(draw.timestamp, draw.random)>>
    /\ UNCHANGED <<idType, idCount, idOptions>>
    /\ UNCHANGED <<cronVars, buildVars, pageVars, regexVars, uuidPageVars>>

\* the caller drops the result; the functions keep no state
IdReturn ==
    /\ idOp # "none"
    /\ idOp' = "none"
    /\ idType' = "uuidv4"
    /\ idCount' = 5
    /\ idOptions' = [uppercase |-> FALSE, hyphens |-> TRUE]
    /\ draws' = <<>>
    /\ output' = <<>>
    /\ UNCHANGED <<cronVars, buildVars, pageVars, regexVars, uuidPageVars>>

CronIdle ==
    /\ cronOp = "none"
    /\ cronExpr = <<>>
    /\ cronCount = 5
    /\ cronResult = <<>>
    /\ expanded = <<>>
    /\ libCalls = <<>>
    /\ specialResult = FALSE
    /\ validationResult = <<>>
    /\ detected = ""
    /\ escaped = FALSE

BuildIdle ==
    /\ buildOp = "none"
    /\ buildFields = <<>>
    /\ buildFormat = "5-field"
    /\ built = <<>>
    /\ defaultValues = <<>>

NextId ==
    \/ CallGenerateMultiple
    \/ CallGenerateUUIDv7
    \/ CallGenerateULID
    \/ IdReturn

(***************************************************************************)
(* Reading identifiers back: the decoders the properties are stated with.  *)
(***************************************************************************)
TwoPow48 == Num(W, 0)

\* acc * 2^bits + v
NumShiftAdd(acc, bits, v) ==
    Num(acc.hi * (2 ^ bits) + ((acc.lo * (2 ^ bits) + v) \div W),
        (acc.lo * (2 ^ bits) + v) % W)

HexValueMap == [c \in Alphabet |-> IndexOf(HexDigits, ToLowerChar(c)) - 1]
CrockfordValueMap == [c \in Alphabet |-> IndexOf(ULID_ENCODING, ToUpperChar(c)) - 1]
CharRank == [c \in Alphabet |-> IndexOf(<<"-">> \o Digits \o UpperLetters \o LowerLetters, c)]

HexValue(c) == HexValueMap[c]
CrockfordValue(c) == CrockfordValueMap[c]

LowerHexChars == Range(HexDigits)
UpperHexChars == {ToUpperChar(c) : c \in LowerHexChars}
CrockfordChars == Range(ULID_ENCODING)

\* the first n characters of text as a big-endian number, bits per character
RECURSIVE DecodeDigits(_, _, _, _, _)
DecodeDigits(text, i, n, bits, acc) ==
    IF i > n THEN acc
    ELSE DecodeDigits(text, i + 1, n, bits,
            NumShiftAdd(acc, bits,
                IF bits = 4 THEN HexValue(text[i]) ELSE CrockfordValue(text[i])))

DecodeUUIDv7Timestamp(text) == DecodeDigits(RemoveHyphens(text), 1, 12, 4, Num(0, 0))
DecodeULIDTimestamp(text) == DecodeDigits(text, 1, 10, 5, Num(0, 0))

\* the 16 bytes of a UUID text
UUIDBytes(text) ==
    LET hex == RemoveHyphens(text)
    IN  [k \in 0..15 |-> 16 * HexValue(hex[2 * k + 1]) + HexValue(hex[2 * k + 2])]

\* a < b as JavaScript compares strings (by UTF-16 code unit)
RECURSIVE StrLessFrom(_, _, _)
StrLessFrom(a, b, i) ==
    IF i > Len(b) THEN FALSE
    ELSE IF i > Len(a) THEN TRUE
    ELSE IF a[i] = b[i] THEN StrLessFrom(a, b, i + 1)
    ELSE CharRank[a[i]] < CharRank[b[i]]

StrLess(a, b) == StrLessFrom(a, b, 1)

IsV7Output == idOp = "generateUUIDv7" \/ (idOp = "generateMultiple" /\ idType = "uuidv7")
IsULIDOutput == idOp = "generateULID" \/ (idOp = "generateMultiple" /\ idType = "ulid")
Ids == 1..Len(output)

(***************************************************************************)
(* Properties of the identifier generator.                                 *)
(***************************************************************************)
\* C1: the first 12 hex digits of a UUID v7 generated at a clock value
\* below 2^48, read as a big-endian number, are that clock value.
C1_UUIDv7TimestampRoundTrip ==
    IsV7Output =>
        \A i \in Ids :
            NumLess(draws[i].timestamp, TwoPow48) =>
                DecodeUUIDv7Timestamp(output[i]) = draws[i].timestamp

C1_Witness ==
    /\ idOp = "generateUUIDv7"
    /\ draws[1].timestamp = Num(W - 1, W - 2)
    /\ draws[1].random[0] = 165
    /\ DecodeUUIDv7Timestamp(output[1]) = Num(W - 1, W - 2)

\* C2: the first 10 characters of a ULID generated at a clock value below
\* 2^48, read as Crockford base32 digits, most significant first, are that
\* clock value.
C2_ULIDTimestampRoundTrip ==
    IsULIDOutput =>
        \A i \in Ids :
            NumLess(draws[i].timestamp, TwoPow48) =>
                DecodeULIDTimestamp(output[i]) = draws[i].timestamp

C2_Witness ==
    /\ idOp = "generateULID"
    /\ draws[1].timestamp = Num(106911, 7060224)
    /\ DecodeULIDTimestamp(output[1]) = Num(106911, 7060224)

\* C3: in a UUID v7 the high nibble of byte 6 is 7, the top two bits of
\* byte 8 are 10, and every other bit of bytes 6..15 is the random bit drawn.
C3_UUIDv7BitLayout ==
    IsV7Output =>
        \A i \in Ids :
            LET bytes == UUIDBytes(output[i])
                random == draws[i].random
            IN  /\ bytes[6] \div 16 = 7
                /\ bytes[6] % 16 = random[6] % 16
                /\ bytes[7] = random[7]
                /\ bytes[8] \div 64 = 2
                /\ bytes[8] % 64 = random[8] % 64
                /\ \A k \in 9..15 : bytes[k] = random[k]

C3_Witness ==
    /\ idOp = "generateUUIDv7"
    /\ draws[1].random[6] = 255
    /\ draws[1].random[8] = 255
    /\ UUIDBytes(output[1])[6] = 127
    /\ UUIDBytes(output[1])[8] = 191

\* C4: a UUID v4 or v7 from generateMultiple is 36 characters with '-' at
\* indices 8, 13, 18, 23 and hex digits elsewhere when hyphens is set, 32 hex
\* digits otherwise; its letters are upper-case exactly when uppercase is set.
C4_UUIDTextFormat ==
    (idOp = "generateMultiple" /\ idType \in {"uuidv4", "uuidv7"}) =>
        \A i \in Ids :
            LET id == output[i]
                HexOk(c) == IF idOptions.uppercase
                            THEN c \in UpperHexChars ELSE c \in LowerHexChars
            IN  IF idOptions.hyphens
                THEN /\ Len(id) = 36
                     /\ \A k \in 0..35 :
                          IF k \in {8, 13, 18, 23}
                          THEN id[k + 1] = "-" ELSE HexOk(id[k + 1])
                ELSE /\ Len(id) = 32
                     /\ \A k \in 0..31 : HexOk(id[k + 1])

C4_Witness ==
    /\ idOp = "generateMultiple"
    /\ idType = "uuidv7"
    /\ idOptions = [uppercase |-> TRUE, hyphens |-> FALSE]
    /\ Len(output) = 3
    /\ Len(output[3]) = 32
    /\ \E k \in 1..32 : output[3][k] = "A"

\* C5 as stated: every ULID from generateMultiple is 26 characters, each one
\* of the 32 symbols 0123456789ABCDEFGHJKMNPQRSTVWXYZ, whatever the options.
C5_ULIDTextFormat_Original ==
    (idOp = "generateMultiple" /\ idType = "ulid") =>
        \A i \in Ids :
            /\ Len(output[i]) = 26
            /\ \A k \in 1..26 : output[i][k] \in CrockfordChars

\* C5 as amended: every ULID from generateMultiple is 26 characters; with
\* uppercase set each is one of the 32 Crockford symbols, and without it each
\* is the lower-case form of one; the hyphens option changes nothing.
C5_ULIDTextFormat ==
    (idOp = "generateMultiple" /\ idType = "ulid") =>
        \A i \in Ids :
            /\ Len(output[i]) = 26
            /\ \A k \in 1..26 :
                 IF idOptions.uppercase
                 THEN output[i][k] \in CrockfordChars
                 ELSE output[i][k] \in {ToLowerChar(c) : c \in CrockfordChars}

C5_Witness ==
    /\ idOp = "generateMultiple"
    /\ idType = "ulid"
    /\ idOptions = [uppercase |-> FALSE, hyphens |-> TRUE]
    /\ Len(output) = 2
    /\ Len(output[2]) = 26
    /\ \E k \in 1..26 : output[2][k] = "z"

\* C6 as stated (the injective half): two draws of the 10 random bytes that
\* differ in any bit give, at the same timestamp, different ULIDs.
C6_ULIDRandomLossless ==
    IsULIDOutput =>
        \A i, j \in Ids :
            (draws[i].timestamp = draws[j].timestamp
                /\ draws[i].random # draws[j].random) => output[i] # output[j]

\* C7: generateMultiple returns exactly max(1, min(100, count)) identifiers.
C7_CountClamping ==
    idOp = "generateMultiple" =>
        Len(output) = (IF idCount < 1 THEN 1 ELSE IF idCount > 100 THEN 100 ELSE idCount)

C7_Witness ==
    /\ idOp = "generateMultiple"
    /\ idCount = 500
    /\ Len(output) = 100

\* C8: of two UUID v7 (or two ULIDs) of one call, the one generated at the
\* smaller clock value (both below 2^48) is the smaller string, and the
\* timestamp prefixes never decrease along the call.
C8_TimeSortable ==
    (IsV7Output \/ IsULIDOutput) =>
        \A i, j \in Ids :
            LET n == IF IsULIDOutput THEN 10 ELSE 12
                Prefix(id) == SubSeq(RemoveHyphens(id), 1, n)
            IN  /\ (NumLess(draws[i].timestamp, draws[j].timestamp)
                       /\ NumLess(draws[j].timestamp, TwoPow48))
                   => StrLess(output[i], output[j])
                /\ (i <= j /\ NumLess(draws[j].timestamp, TwoPow48))
                   => ~StrLess(Prefix(output[j]), Prefix(output[i]))

C8_Witness ==
    /\ idOp = "generateMultiple"
    /\ idType = "ulid"
    /\ Len(output) = 3
    /\ draws[1].timestamp = Num(255, W - 1)
    /\ draws[2].timestamp = Num(256, 0)
    /\ draws[3].timestamp = Num(256, 1)
    /\ StrLess(output[1], output[2])
    /\ StrLess(output[2], output[3])

(***************************************************************************)
(* The cron expression engine.                                             *)
(***************************************************************************)
Whitespace == {" ", "\t"}

\* String.prototype.trim
RECURSIVE TrimStart(_)
TrimStart(s) ==
    IF s # <<>> /\ Head(s) \in Whitespace THEN TrimStart(Tail(s)) ELSE s

RECURSIVE TrimEnd(_)
TrimEnd(s) ==
    IF s # <<>> /\ s[Len(s)] \in Whitespace
    THEN TrimEnd(SubSeq(s, 1, Len(s) - 1)) ELSE s

Trim(s) == TrimEnd(TrimStart(s))

\* s.split(/\s+/): the pieces between the maximal runs of whitespace
RECURSIVE SplitWhitespace(_, _, _, _)
SplitWhitespace(s, i, piece, pieces) ==
    IF i > Len(s) THEN Append(pieces, piece)
    ELSE IF s[i] \in Whitespace
    THEN IF i > 1 /\ s[i - 1] \in Whitespace
         THEN SplitWhitespace(s, i + 1, piece, pieces)
         ELSE SplitWhitespace(s, i + 1, <<>>, Append(pieces, piece))
    ELSE SplitWhitespace(s, i + 1, Append(piece, s[i]), pieces)

\* a value that may be absent (undefined or null): <<>>, or <<v>>
Absent == <<>>
Present(v) == <<v>>

SPECIAL_STRINGS ==
    (<<"@", "y", "e", "a", "r", "l", "y">> :> [expression |-> <<"0", " ", "0", " ", "1", " ", "1", " ", "*">>,
        description |-> "Run once a year at midnight on January 1st"]) @@
    (<<"@", "a", "n", "n", "u", "a", "l", "l", "y">> :> [expression |-> <<"0", " ", "0", " ", "1", " ", "1", " ", "*">>,
        description |-> "Run once a year at midnight on January 1st"]) @@
    (<<"@", "m", "o", "n", "t", "h", "l", "y">> :> [expression |-> <<"0", " ", "0", " ", "1", " ", "*", " ", "*">>,
        description |-> "Run once a month at midnight on the 1st day"]) @@
    (<<"@", "w", "e", "e", "k", "l", "y">> :> [expression |-> <<"0", " ", "0", " ", "*", " ", "*", " ", "0">>,
        description |-> "Run once a week at midnight on Sunday"]) @@
    (<<"@", "d", "a", "i", "l", "y">> :> [expression |-> <<"0", " ", "0", " ", "*", " ", "*", " ", "*">>,
        description |-> "Run once a day at midnight"]) @@
    (<<"@", "m", "i", "d", "n", "i", "g", "h", "t">> :> [expression |-> <<"0", " ", "0", " ", "*", " ", "*", " ", "*">>,
        description |-> "Run once a day at midnight"]) @@
    (<<"@", "h", "o", "u", "r", "l", "y">> :> [expression |-> <<"0", " ", "*", " ", "*", " ", "*", " ", "*">>,
        description |-> "Run once an hour at the beginning of the hour"]) @@
    (<<"@", "r", "e", "b", "o", "o", "t">> :> [expression |-> <<>>,
        description |-> "Run once at startup (not schedulable)"])

\* the properties every object inherits from Object.prototype
ObjectPrototypeProperties ==
    { <<"c", "o", "n", "s", "t", "r", "u", "c", "t", "o", "r">>,
      <<"_", "_", "p", "r", "o", "t", "o", "_", "_">>,
      <<"t", "o", "S", "t", "r", "i", "n", "g">>,
      <<"v", "a", "l", "u", "e", "O", "f">>,
      <<"h", "a", "s", "O", "w", "n", "P", "r", "o", "p", "e", "r", "t", "y">>,
      <<"i", "s", "P", "r", "o", "t", "o", "t", "y", "p", "e", "O", "f">>,
      <<"t", "o", "L", "o", "c", "a", "l", "e", "S", "t", "r", "i", "n", "g">>,
      <<"p", "r", "o", "p", "e", "r", "t", "y", "I", "s", "E", "n", "u", "m", "e", "r", "a", "b", "l", "e">> }

\* key in SPECIAL_STRINGS
InSpecialStrings(key) ==
    key \in DOMAIN SPECIAL_STRINGS \/ key \in ObjectPrototypeProperties

\* SPECIAL_STRINGS[key]?.expression and SPECIAL_STRINGS[key]?.description:
\* an inherited property is an object that has neither
SpecialExpression(key) ==
    IF key \in DOMAIN SPECIAL_STRINGS
    THEN Present(SPECIAL_STRINGS[key].expression) ELSE Absent

SpecialDescription(key) ==
    IF key \in DOMAIN SPECIAL_STRINGS
    THEN Present(SPECIAL_STRINGS[key].description) ELSE Absent

\* v || null: an absent or empty string becomes null
TextOrNull(v) == IF v = Absent \/ v = Present(<<>>) THEN Absent ELSE v
StringOrNull(v) == IF v = Absent \/ v = Present("") THEN Absent ELSE v

isSpecialString(expression) == InSpecialStrings(ToLowerCase(Trim(expression)))

\* mutant: the key looked up without lower-casing it
expandSpecialStringCaseSensitive(expression) ==
    TextOrNull(SpecialExpression(Trim(expression)))

expandSpecialString(expression) ==
    TextOrNull(SpecialExpression(ToLowerCase(Trim(expression))))

getSpecialStringDescription(expression) ==
    StringOrNull(SpecialDescription(ToLowerCase(Trim(expression))))

\* mutant: exactly six tokens taken for the five-field format
detectCronFormatMoreThanSix(expression) ==
    LET trimmed == Trim(expression)
    IN  IF isSpecialString(trimmed) THEN "5-field"
        ELSE IF Len(SplitWhitespace(trimmed, 1, <<>>, <<>>)) > 6
             THEN "6-field" ELSE "5-field"

detectCronFormat(expression) ==
    LET trimmed == Trim(expression)
    IN  IF isSpecialString(trimmed) THEN "5-field"
        ELSE IF Len(SplitWhitespace(trimmed, 1, <<>>, <<>>)) >= 6
             THEN "6-field" ELSE "5-field"

(***************************************************************************)
(* The external capabilities.  What cronstrue and cron-parser answer is    *)
(* the environment's choice lib: whether each accepts the text it is       *)
(* given, and how many future matches the schedule iterator has.           *)
(***************************************************************************)
Called(fn, arg) == [fn |-> fn, arg |-> arg]

\* cronstrue.toString(expression, options)
cronstrueToString(expression, verbose, lib) ==
    [threw |-> ~lib.cronstrue,
     value |-> IF ~lib.cronstrue THEN "cronstrue error"
               ELSE IF verbose THEN "verbose description" ELSE "description",
     calls |-> <<Called("cronstrue.toString", expression)>>]

\* CronExpressionParser.parse(expr, options)
CronExpressionParserParse(expr, lib) ==
    [threw |-> ~lib.parser,
     value |-> IF lib.parser THEN "" ELSE "cron-parser error",
     calls |-> <<Called("CronExpressionParser.parse", expr)>>]

getCronDescription(expression, lib) ==
    LET trimmed == Trim(expression)
        desc == getSpecialStringDescription(trimmed)
        format == detectCronFormat(trimmed)
        described == cronstrueToString(trimmed, format = "6-field", lib)
    IN  IF isSpecialString(trimmed) /\ desc # Absent
        THEN [threw |-> FALSE, value |-> desc[1], calls |-> <<>>]
        ELSE IF ToLowerCase(trimmed) = <<"@", "r", "e", "b", "o", "o", "t">>
        THEN [threw |-> FALSE, value |-> "Run once at system startup", calls |-> <<>>]
        ELSE described

getNextRunsFromExpression(expression, count, format, lib) ==
    LET expr == IF format = "5-field" THEN <<"0", " ">> \o expression ELSE expression
        parsed == CronExpressionParserParse(expr, lib)
        \* the loop of lines 586-594: next() throws when the matches run out
        pushed == Min(Max(count, 0), lib.matches)
        asked == IF count > lib.matches THEN lib.matches + 1 ELSE Max(count, 0)
    IN  IF parsed.threw
        THEN [threw |-> TRUE, error |-> parsed.value, runs |-> <<>>, calls |-> parsed.calls]
        ELSE [threw |-> FALSE, error |-> "", runs |-> [i \in 1..pushed |-> i],
              calls |-> parsed.calls \o [i \in 1..asked |-> Called("next", <<>>)]]

\* mutant: the empty expansion of @reboot handed to the schedule iterator
getNextRunsNoRebootCheck(expression, count, lib) ==
    LET trimmed == Trim(expression)
        expansion == expandSpecialString(trimmed)
    IN  IF isSpecialString(trimmed)
        THEN getNextRunsFromExpression(
                 IF expansion = Absent THEN <<>> ELSE expansion[1], count, "5-field", lib)
        ELSE getNextRunsFromExpression(trimmed, count, detectCronFormat(trimmed), lib)

getNextRuns(expression, count, lib) ==
    LET trimmed == Trim(expression)
        expansion == expandSpecialString(trimmed)
    IN  IF isSpecialString(trimmed)
        THEN IF TextOrNull(expansion) = Absent
             THEN [threw |-> FALSE, error |-> "", runs |-> <<>>, calls |-> <<>>]
             ELSE getNextRunsFromExpression(expansion[1], count, "5-field", lib)
        ELSE getNextRunsFromExpression(trimmed, count, detectCronFormat(trimmed), lib)

validateCronExpression(expression, lib) ==
    LET trimmed == Trim(expression)
        format == detectCronFormat(trimmed)
        expr == IF format = "5-field" THEN <<"0", " ">> \o trimmed ELSE trimmed
        parsed == CronExpressionParserParse(expr, lib)
        described == cronstrueToString(trimmed, FALSE, lib)
    IN  IF trimmed = <<>>
        THEN [valid |-> FALSE, error |-> Present("Expression is empty"), calls |-> <<>>]
        ELSE IF isSpecialString(trimmed)
        THEN [valid |-> TRUE, error |-> Absent, calls |-> <<>>]
        ELSE IF parsed.threw
        THEN [valid |-> FALSE, error |-> Present(parsed.value), calls |-> parsed.calls]
        ELSE IF described.threw
        THEN [valid |-> FALSE, error |-> Present(described.value),
              calls |-> parsed.calls \o described.calls]
        ELSE [valid |-> TRUE, error |-> Absent, calls |-> parsed.calls \o described.calls]

\* mutant: a result that never carries an error
CronParseResultErrorDropped(valid, description, error, nextRuns, format, special, normalized) ==
    [valid |-> valid, description |-> description, error |-> Absent,
     nextRuns |-> nextRuns, format |-> format, isSpecialString |-> special,
     normalizedExpression |-> normalized]

CronParseResult(valid, description, error, nextRuns, format, special, normalized) ==
    [valid |-> valid, description |-> description, error |-> error,
     nextRuns |-> nextRuns, format |-> format, isSpecialString |-> special,
     normalizedExpression |-> normalized]

\* mutant: the failure of the description or of the next runs thrown on
RethrowFailure(message, format, isSpecial, calls) ==
    [threw |-> TRUE, result |-> Absent, calls |-> calls]

\* the catch block of parseCronExpression: the failure becomes a result
CatchFailure(message, format, isSpecial, calls) ==
    [threw |-> FALSE,
     result |-> CronParseResult(FALSE, Absent, Present(message), Absent, format,
                                isSpecial, Absent),
     calls |-> calls]

\* the result and the capability calls made on the way
\* the steps of parseCronExpression, on the trimmed text and on what the
\* functions it calls return; a call that is not reached is not evaluated
parseSteps(trimmed, isSpecial, format, validation, description, nextRuns) ==
    IF trimmed = <<>>
    THEN [threw |-> FALSE,
          result |-> CronParseResult(FALSE, Absent, Present("Expression is empty"),
                                     Absent, "5-field", FALSE, Absent),
          calls |-> <<>>]
    ELSE IF ~validation.valid
    THEN [threw |-> FALSE,
          result |-> CronParseResult(FALSE, Absent, validation.error, Absent, format,
                                     isSpecial, Absent),
          calls |-> validation.calls]
    ELSE IF description.threw
    THEN CatchFailure(description.value, format, isSpecial,
                      validation.calls \o description.calls)
    ELSE IF nextRuns.threw
    THEN CatchFailure(nextRuns.error, format, isSpecial,
                      validation.calls \o description.calls \o nextRuns.calls)
    ELSE [threw |-> FALSE,
          result |-> CronParseResult(TRUE, Present(description.value), Absent,
                                     Present(nextRuns.runs), format, isSpecial,
                                     IF isSpecial
                                     THEN TextOrNull(expandSpecialString(trimmed))
                                     ELSE Present(trimmed)),
          calls |-> validation.calls \o description.calls \o nextRuns.calls]

parseCronExpression(expression, nextRunCount, lib) ==
    LET trimmed == Trim(expression)
    IN  parseSteps(trimmed, isSpecialString(trimmed), detectCronFormat(trimmed),
                   validateCronExpression(trimmed, lib), getCronDescription(trimmed, lib),
                   getNextRuns(trimmed, nextRunCount, lib))

(***************************************************************************)
(* The inputs of the cron functions.                                       *)
(***************************************************************************)
MaxRunCount == 3
MaxMatches == 2

CronCores ==
    { <<"@", "y", "e", "a", "r", "l", "y">>,
      <<"@", "a", "n", "n", "u", "a", "l", "l", "y">>,
      <<"@", "m", "o", "n", "t", "h", "l", "y">>,
      <<"@", "w", "e", "e", "k", "l", "y">>,
      <<"@", "d", "a", "i", "l", "y">>,
      <<"@", "m", "i", "d", "n", "i", "g", "h", "t">>,
      <<"@", "h", "o", "u", "r", "l", "y">>,
      <<"@", "r", "e", "b", "o", "o", "t">>,
      <<"@", "r", "e", "b", "o", "o", "t", "e", "d">>,
      <<"r", "e", "b", "o", "o", "t">>,
      <<"@">>,
      <<"c", "o", "n", "s", "t", "r", "u", "c", "t", "o", "r">>,
      <<"_", "_", "p", "r", "o", "t", "o", "_", "_">>,
      <<"*", " ", "*", " ", "*", " ", "*", " ", "*">>,
      <<"0", " ", "9", " ", "*", " ", "*", " ", "1", "-", "5">>,
      <<"*", "/", "5", " ", "*", " ", "*", " ", "*", " ", "*", " ", "*">>,
      <<"@", "d", "a", "i", "l", "y", " ", "@", "h", "o", "u", "r", "l", "y">>,
      <<"@", " ", "r", "e", "b", "o", "o", "t">>,
      <<"6", "0", " ", "*", " ", "*", " ", "*", " ", "*">>,
      <<"*", " ", "*", " ", "\t", "*", " ", "*", " ", "*">>,
      <<"*", " ", "*", " ", "*", " ", "*", " ", "*", " ", "*", " ", "*">>,
      <<>> }

\* every second letter upper-cased
MixedCase(s) == [i \in 1..Len(s) |-> IF i % 2 = 0 THEN ToUpperChar(s[i]) ELSE s[i]]

LeadingPads == {<<>>, <<" ">>, <<"\t", " ">>}
TrailingPads == {<<>>, <<" ", "\t">>}

\* a text in lower, upper and mixed case, with and without whitespace around
Variants(core) ==
    {lead \o cased \o trail :
        lead \in LeadingPads,
        cased \in {core, ToUpperCase(core), MixedCase(core)},
        trail \in TrailingPads}

CronExprs == UNION {Variants(core) : core \in CronCores}

RunCounts == ((-1)..MaxRunCount) \cup {5}

Libs == [cronstrue : BOOLEAN, parser : BOOLEAN, matches : 0..MaxMatches]

(***************************************************************************)
(* The state machine of a caller of the cron functions.                    *)
(***************************************************************************)
CallParseCronExpression ==
    /\ cronOp = "none"
    /\ \E e \in CronExprs, n \in RunCounts, lib \in Libs :
         LET parsed == parseCronExpression(e, n, lib)
         IN  /\ cronOp' = "parseCronExpression"
             /\ cronExpr' = e
             /\ cronCount' = n
             /\ escaped' = parsed.threw
             /\ cronResult' = IF parsed.threw THEN Absent ELSE Present(parsed.result)
             /\ libCalls' = parsed.calls
    /\ UNCHANGED <<expanded, specialResult, validationResult, detected>>
    /\ UNCHANGED <<idVars, buildVars, pageVars, regexVars, uuidPageVars>>

CallExpandSpecialString ==
    /\ cronOp = "none"
    /\ \E e \in CronExprs :
         /\ cronOp' = "expandSpecialString"
         /\ cronExpr' = e
         /\ expanded' = expandSpecialString(e)
    /\ UNCHANGED <<cronCount, cronResult, libCalls, specialResult, validationResult, detected,
                   escaped>>
    /\ UNCHANGED <<idVars, buildVars, pageVars, regexVars, uuidPageVars>>

CallIsSpecialString ==
    /\ cronOp = "none"
    /\ \E e \in CronExprs :
         /\ cronOp' = "isSpecialString"
         /\ cronExpr' = e
         /\ specialResult' = isSpecialString(e)
    /\ UNCHANGED <<cronCount, cronResult, expanded, libCalls, validationResult, detected,
                   escaped>>
    /\ UNCHANGED <<idVars, buildVars, pageVars, regexVars, uuidPageVars>>

CallValidateCronExpression ==
    /\ cronOp = "none"
    /\ \E e \in CronExprs, lib \in Libs :
         LET validated == validateCronExpression(e, lib)
         IN  /\ cronOp' = "validateCronExpression"
             /\ cronExpr' = e
             /\ validationResult' = Present([valid |-> validated.valid, error |-> validated.error])
             /\ libCalls' = validated.calls
    /\ UNCHANGED <<cronCount, cronResult, expanded, specialResult, detected, escaped>>
    /\ UNCHANGED <<idVars, buildVars, pageVars, regexVars, uuidPageVars>>

CallDetectCronFormat ==
    /\ cronOp = "none"
    /\ \E e \in CronExprs :
         /\ cronOp' = "detectCronFormat"
         /\ cronExpr' = e
         /\ detected' = detectCronFormat(e)
    /\ UNCHANGED <<cronCount, cronResult, expanded, libCalls, specialResult,
                   validationResult, escaped>>
    /\ UNCHANGED <<idVars, buildVars, pageVars, regexVars, uuidPageVars>>

\* the caller drops the result; the functions keep no state
CronReturn ==
    /\ cronOp # "none"
    /\ cronOp' = "none"
    /\ cronExpr' = <<>>
    /\ cronCount' = 5
    /\ cronResult' = <<>>
    /\ expanded' = <<>>
    /\ libCalls' = <<>>
    /\ specialResult' = FALSE
    /\ validationResult' = <<>>
    /\ detected' = ""
    /\ escaped' = FALSE
    /\ UNCHANGED <<idVars, buildVars, pageVars, regexVars, uuidPageVars>>

NextCron ==
    \/ CallParseCronExpression
    \/ CallExpandSpecialString
    \/ CallIsSpecialString
    \/ CallValidateCronExpression
    \/ CallDetectCronFormat
    \/ CronReturn

(***************************************************************************)
(* Properties of the cron engine.                                          *)
(***************************************************************************)
\* the aliases and their five-field expressions, as the claim lists them
AliasExpansion ==
    (<<"@", "y", "e", "a", "r", "l", "y">> :> <<"0", " ", "0", " ", "1", " ", "1", " ", "*">>) @@
    (<<"@", "a", "n", "n", "u", "a", "l", "l", "y">> :> <<"0", " ", "0", " ", "1", " ", "1", " ", "*">>) @@
    (<<"@", "m", "o", "n", "t", "h", "l", "y">> :> <<"0", " ", "0", " ", "1", " ", "*", " ", "*">>) @@
    (<<"@", "w", "e", "e", "k", "l", "y">> :> <<"0", " ", "0", " ", "*", " ", "*", " ", "0">>) @@
    (<<"@", "d", "a", "i", "l", "y">> :> <<"0", " ", "0", " ", "*", " ", "*", " ", "*">>) @@
    (<<"@", "m", "i", "d", "n", "i", "g", "h", "t">> :> <<"0", " ", "0", " ", "*", " ", "*", " ", "*">>) @@
    (<<"@", "h", "o", "u", "r", "l", "y">> :> <<"0", " ", "*", " ", "*", " ", "*", " ", "*">>)

\* C9: expandSpecialString gives each alias other than @reboot, in any
\* letter case and with whitespace around it, its fixed five-field
\* expression, and null for @reboot and for every text that is no alias.
C9_SpecialStringExpansion ==
    cronOp = "expandSpecialString" =>
        /\ \A alias \in DOMAIN AliasExpansion :
             cronExpr \in Variants(alias) => expanded = Present(AliasExpansion[alias])
        /\ (\A alias \in DOMAIN AliasExpansion : cronExpr \notin Variants(alias))
             => expanded = Absent

C9_Witness ==
    /\ cronOp = "expandSpecialString"
    /\ cronExpr = <<"\t", " ", "@", "W", "e", "E", "k", "L", "y", " ", "\t">>
    /\ expanded = Present(<<"0", " ", "0", " ", "*", " ", "*", " ", "0">>)

\* C10: for @reboot in any letter case, with any whitespace around it and
\* any nextRunCount, parseCronExpression returns a valid special-string
\* result of format 5-field with a description, an empty nextRuns list and no
\* normalizedExpression, and makes no call to the schedule iterator.
C10_RebootValidNotSchedulable ==
    (cronOp = "parseCronExpression"
        /\ cronExpr \in Variants(<<"@", "r", "e", "b", "o", "o", "t">>)) =>
        /\ cronResult[1].valid
        /\ cronResult[1].isSpecialString
        /\ cronResult[1].format = "5-field"
        /\ cronResult[1].description # Absent
        /\ cronResult[1].description # Present("")
        /\ cronResult[1].error = Absent
        /\ cronResult[1].nextRuns = Present(<<>>)
        /\ cronResult[1].normalizedExpression = Absent
        /\ \A k \in 1..Len(libCalls) :
             libCalls[k].fn \notin {"CronExpressionParser.parse", "next"}

C10_Witness ==
    /\ cronOp = "parseCronExpression"
    /\ cronExpr = <<" ", "@", "R", "E", "B", "O", "O", "T", " ", "\t">>
    /\ cronCount = 3
    /\ cronResult[1].valid
    /\ cronResult[1].nextRuns = Present(<<>>)
    /\ libCalls = <<>>

\* the eight aliases of the alias table
Aliases == DOMAIN AliasExpansion \cup {<<"@", "r", "e", "b", "o", "o", "t">>}

IsAlias(text) == ToLowerCase(Trim(text)) \in Aliases

\* C11: isSpecialString(e) is true exactly when e, trimmed and lower-cased,
\* is one of the eight aliases, and validateCronExpression accepts no other
\* text without consulting cron-parser and cronstrue.
C11_SpecialStringExactMatch ==
    /\ cronOp = "isSpecialString" => (specialResult <=> IsAlias(cronExpr))
    /\ (cronOp = "validateCronExpression" /\ validationResult[1].valid /\ libCalls = <<>>)
           => IsAlias(cronExpr)

\* the number of maximal runs of non-whitespace characters
TokenCount(text) ==
    Cardinality({i \in 1..Len(text) :
        text[i] \notin Whitespace /\ (i = 1 \/ text[i - 1] \in Whitespace)})

ExpectedFormat(text) ==
    IF ~IsAlias(text) /\ TokenCount(text) >= 6 THEN "6-field" ELSE "5-field"

\* C12: detectCronFormat returns 6-field exactly when the expression is no
\* alias and holds six or more whitespace-separated tokens, 5-field for
\* every other text, and the format field of every parseCronExpression
\* result follows the same rule.
C12_FormatDetection ==
    /\ cronOp = "detectCronFormat" => detected = ExpectedFormat(cronExpr)
    /\ cronOp = "parseCronExpression" => cronResult[1].format = ExpectedFormat(cronExpr)

C12_Witness ==
    /\ cronOp = "detectCronFormat"
    /\ cronExpr = <<"\t", " ", "*", "/", "5", " ", "*", " ", "*", " ", "*", " ", "*",
                    " ", "*", " ", "\t">>
    /\ detected = "6-field"

\* C13: every parseCronExpression result with valid = false carries an error
\* and none of description, nextRuns and normalizedExpression; every result
\* with valid = true carries a description and a nextRuns list and no error.
C13_ResultShape ==
    cronOp = "parseCronExpression" =>
        IF cronResult[1].valid
        THEN /\ cronResult[1].description # Absent
             /\ cronResult[1].nextRuns # Absent
             /\ cronResult[1].error = Absent
        ELSE /\ cronResult[1].error # Absent
             /\ cronResult[1].description = Absent
             /\ cronResult[1].nextRuns = Absent
             /\ cronResult[1].normalizedExpression = Absent

C13_Witness ==
    /\ cronOp = "parseCronExpression"
    /\ cronExpr = <<"6", "0", " ", "*", " ", "*", " ", "*", " ", "*">>
    /\ ~cronResult[1].valid
    /\ cronResult[1].error = Present("cron-parser error")
    /\ cronResult[1].nextRuns = Absent

IsCronParseResult(r) ==
    /\ DOMAIN r = {"valid", "description", "error", "nextRuns", "format",
                   "isSpecialString", "normalizedExpression"}
    /\ r.valid \in BOOLEAN
    /\ r.format \in {"5-field", "6-field"}
    /\ r.isSpecialString \in BOOLEAN

\* C14: for every text and every nextRunCount parseCronExpression returns a
\* CronParseResult and throws nothing to its caller, whatever cronstrue and
\* cron-parser throw.
C14_ParseTotal ==
    cronOp = "parseCronExpression" =>
        /\ ~escaped
        /\ cronResult # Absent
        /\ IsCronParseResult(cronResult[1])

C14_Witness ==
    /\ cronOp = "parseCronExpression"
    /\ cronExpr = <<"c", "o", "n", "s", "t", "r", "u", "c", "t", "o", "r">>
    /\ libCalls = <<Called("cronstrue.toString", cronExpr)>>
    /\ ~escaped
    /\ ~cronResult[1].valid
    /\ cronResult[1].error = Present("cronstrue error")

(***************************************************************************)
(* The cron builder: FieldValues serialized to an expression.  A           *)
(* FieldValue is a record of its type and its optional properties.         *)
(***************************************************************************)
CRON_FIELDS_5 ==
    << [name |-> "minute", min |-> 0, max |-> 59],
       [name |-> "hour", min |-> 0, max |-> 23],
       [name |-> "dayOfMonth", min |-> 1, max |-> 31],
       [name |-> "month", min |-> 1, max |-> 12],
       [name |-> "dayOfWeek", min |-> 0, max |-> 6] >>

CRON_FIELDS_6 == <<[name |-> "second", min |-> 0, max |-> 59]>> \o CRON_FIELDS_5

FieldValueTypes == {"wildcard", "specific", "range", "list", "step", "rangeStep"}

FieldValue(type, specific, rangeStart, rangeEnd, step, listValues) ==
    [type |-> type, specific |-> specific, rangeStart |-> rangeStart,
     rangeEnd |-> rangeEnd, step |-> step, listValues |-> listValues]

\* { type }: a FieldValue with no other property set
TypeOnly(type) == FieldValue(type, Absent, Absent, Absent, Absent, Absent)

\* String(n) of an integer
RECURSIVE DecimalDigits(_)
DecimalDigits(n) ==
    IF n < 10 THEN <<Digits[n + 1]>>
    ELSE Append(DecimalDigits(n \div 10), Digits[(n % 10) + 1])

NumberToString(n) == IF n < 0 THEN <<"-">> \o DecimalDigits(-n) ELSE DecimalDigits(n)

\* v ?? d
NullishOr(v, d) == IF v = Absent THEN d ELSE v[1]

\* texts.join(separator)
RECURSIVE Join(_, _)
Join(texts, separator) ==
    IF texts = <<>> THEN <<>>
    ELSE IF Len(texts) = 1 THEN texts[1]
    ELSE texts[1] \o separator \o Join(Tail(texts), separator)

buildFieldValue(value) ==
    CASE value.type = "wildcard" -> <<"*">>
      [] value.type = "specific" -> NumberToString(NullishOr(value.specific, 0))
      [] value.type = "range" ->
            NumberToString(NullishOr(value.rangeStart, 0)) \o <<"-">>
                \o NumberToString(NullishOr(value.rangeEnd, 0))
      [] value.type = "list" ->
            Join([k \in 1..Len(NullishOr(value.listValues, <<>>)) |->
                     NumberToString(NullishOr(value.listValues, <<>>)[k])], <<",">>)
      [] value.type = "step" -> <<"*", "/">> \o NumberToString(NullishOr(value.step, 1))
      [] value.type = "rangeStep" ->
            NumberToString(NullishOr(value.rangeStart, 0)) \o <<"-">>
                \o NumberToString(NullishOr(value.rangeEnd, 0)) \o <<"/">>
                \o NumberToString(NullishOr(value.step, 1))
      [] OTHER -> <<"*">>

buildCronExpression(fields, format) ==
    LET expectedLength == IF format = "6-field" THEN 6 ELSE 5
        sliced == SubSeq(fields, 1, Min(Len(fields), expectedLength))
        values == [k \in 1..Len(sliced) |-> buildFieldValue(sliced[k])]
        padded == values \o [k \in 1..(expectedLength - Len(values)) |-> <<"*">>]
    IN  Join(padded, <<" ">>)

\* mutant: five values whatever the format
getDefaultFieldValuesFiveOnly(format) ==
    [k \in 1..5 |-> TypeOnly("wildcard")]

getDefaultFieldValues(format) ==
    LET count == IF format = "6-field" THEN 6 ELSE 5
    IN  [k \in 1..count |-> TypeOnly("wildcard")]

(***************************************************************************)
(* The inputs of the builder functions.                                    *)
(***************************************************************************)
MaxFields == 7
MaxListLength == 3

Formats == {"5-field", "6-field"}

\* the lists 1; 1,3; 1,3,5; ...
OddNumbers(n) == [k \in 1..n |-> 2 * k - 1]

\* each type with its properties unset, partly set and set, and a type
\* outside the six
FieldValueSamples ==
    {TypeOnly(type) : type \in FieldValueTypes \cup {"other"}}
    \cup {FieldValue("specific", Present(n), Absent, Absent, Absent, Absent) :
            n \in {0, 5, 31}}
    \cup {FieldValue(type, start, end, Absent, Absent, Absent) :
            type \in {"range"}, start \in {Absent, Present(1)}, end \in {Absent, Present(5)}}
    \cup {FieldValue("list", Absent, Absent, Absent, Absent, Present(OddNumbers(n))) :
            n \in 0..MaxListLength}
    \cup {FieldValue("step", Absent, Absent, Absent, Present(n), Absent) : n \in {5, 15}}
    \cup {FieldValue("rangeStep", Absent, start, end, step, Absent) :
            start \in {Absent, Present(1)}, end \in {Absent, Present(10)},
            step \in {Absent, Present(2)}}

\* lists of up to MaxFields values: one sample among wildcards, or the sample
\* at every position
FieldLists ==
    {<<>>}
    \cup {[k \in 1..n |-> IF k = at THEN value ELSE TypeOnly("wildcard")] :
            n \in 1..MaxFields, at \in 1..MaxFields, value \in FieldValueSamples}
    \cup {[k \in 1..n |-> value] : n \in 1..MaxFields, value \in FieldValueSamples}

(***************************************************************************)
(* The state machine of a caller of the builder functions.                 *)
(***************************************************************************)
CallBuildFieldValue ==
    /\ buildOp = "none"
    /\ \E value \in FieldValueSamples :
         /\ buildOp' = "buildFieldValue"
         /\ buildFields' = <<value>>
         /\ built' = buildFieldValue(value)
    /\ UNCHANGED <<buildFormat, defaultValues>>
    /\ UNCHANGED <<idVars, cronVars, pageVars, regexVars, uuidPageVars>>

CallBuildCronExpression ==
    /\ buildOp = "none"
    /\ \E fields \in FieldLists, format \in Formats :
         /\ buildOp' = "buildCronExpression"
         /\ buildFields' = fields
         /\ buildFormat' = format
         /\ built' = buildCronExpression(fields, format)
    /\ UNCHANGED defaultValues
    /\ UNCHANGED <<idVars, cronVars, pageVars, regexVars, uuidPageVars>>

CallGetDefaultFieldValues ==
    /\ buildOp = "none"
    /\ \E format \in Formats :
         /\ buildOp' = "getDefaultFieldValues"
         /\ buildFormat' = format
         /\ defaultValues' = getDefaultFieldValues(format)
    /\ UNCHANGED <<buildFields, built>>
    /\ UNCHANGED <<idVars, cronVars, pageVars, regexVars, uuidPageVars>>

\* the caller drops the result; the functions keep no state
BuildReturn ==
    /\ buildOp # "none"
    /\ buildOp' = "none"
    /\ buildFields' = <<>>
    /\ buildFormat' = "5-field"
    /\ built' = <<>>
    /\ defaultValues' = <<>>
    /\ UNCHANGED <<idVars, cronVars, pageVars, regexVars, uuidPageVars>>

NextBuild ==
    \/ CallBuildFieldValue
    \/ CallBuildCronExpression
    \/ CallGetDefaultFieldValues
    \/ BuildReturn

\* what the builder page shows in the inputs of a field
DisplayedInputs(field, fieldValue) ==
    CASE fieldValue.type = "specific" ->
            <<NumberToString(NullishOr(fieldValue.specific, field.min))>>
      [] fieldValue.type = "range" ->
            <<NumberToString(NullishOr(fieldValue.rangeStart, field.min)),
              NumberToString(NullishOr(fieldValue.rangeEnd, field.max))>>
      [] fieldValue.type = "list" ->
            <<Join([k \in 1..Len(NullishOr(fieldValue.listValues, <<>>)) |->
                      NumberToString(NullishOr(fieldValue.listValues, <<>>)[k])], <<",">>)>>
      [] fieldValue.type = "step" ->
            <<NumberToString(NullishOr(fieldValue.step, 1))>>
      [] fieldValue.type = "rangeStep" ->
            <<NumberToString(NullishOr(fieldValue.rangeStart, field.min)),
              NumberToString(NullishOr(fieldValue.rangeEnd, field.max)),
              NumberToString(NullishOr(fieldValue.step, 1))>>
      [] OTHER -> <<>>

(***************************************************************************)
(* Properties of the cron builder.                                         *)
(***************************************************************************)
\* text.split(separator) for a separator of one character
RECURSIVE SplitOn(_, _, _, _, _)
SplitOn(text, separator, i, piece, pieces) ==
    IF i > Len(text) THEN Append(pieces, piece)
    ELSE IF text[i] = separator
    THEN SplitOn(text, separator, i + 1, <<>>, Append(pieces, piece))
    ELSE SplitOn(text, separator, i + 1, Append(piece, text[i]), pieces)

Tokens(text) == SplitOn(text, " ", 1, <<>>, <<>>)

FieldsOf(format) == IF format = "6-field" THEN CRON_FIELDS_6 ELSE CRON_FIELDS_5

NumericTypes == {"specific", "range", "step", "rangeStep"}

\* the numbers of a FieldValue, an unset one replaced by the default the
\* claim names: the field's min, the field's max, and 1 for the step
DefaultedNumbers(field, value) ==
    [specific |-> NumberToString(NullishOr(value.specific, field.min)),
     rangeStart |-> NumberToString(NullishOr(value.rangeStart, field.min)),
     rangeEnd |-> NumberToString(NullishOr(value.rangeEnd, field.max)),
     step |-> NumberToString(NullishOr(value.step, 1))]

DefaultedToken(field, value) ==
    LET n == DefaultedNumbers(field, value)
    IN  CASE value.type = "specific" -> n.specific
          [] value.type = "range" -> n.rangeStart \o <<"-">> \o n.rangeEnd
          [] value.type = "step" -> <<"*", "/">> \o n.step
          [] value.type = "rangeStep" ->
                n.rangeStart \o <<"-">> \o n.rangeEnd \o <<"/">> \o n.step

DefaultedDisplay(field, value) ==
    LET n == DefaultedNumbers(field, value)
    IN  CASE value.type = "specific" -> <<n.specific>>
          [] value.type = "range" -> <<n.rangeStart, n.rangeEnd>>
          [] value.type = "step" -> <<n.step>>
          [] value.type = "rangeStep" -> <<n.rangeStart, n.rangeEnd, n.step>>

\* C17: a FieldValue with unset numbers is serialized with the field's min
\* for specific and rangeStart, the field's max for rangeEnd and 1 for step,
\* and these are the numbers the builder page shows in the field's inputs.
C17_SerializationDefaults ==
    buildOp = "buildCronExpression" =>
        \A k \in 1..Min(Len(buildFields), Len(FieldsOf(buildFormat))) :
            buildFields[k].type \in NumericTypes =>
                /\ Tokens(built)[k] = DefaultedToken(FieldsOf(buildFormat)[k], buildFields[k])
                /\ DisplayedInputs(FieldsOf(buildFormat)[k], buildFields[k])
                       = DefaultedDisplay(FieldsOf(buildFormat)[k], buildFields[k])

IsNumber(text) == text # <<>> /\ \A k \in 1..Len(text) : text[k] \in Range(Digits)

IsRange(text) ==
    LET ends == SplitOn(text, "-", 1, <<>>, <<>>)
    IN  Len(ends) = 2 /\ IsNumber(ends[1]) /\ IsNumber(ends[2])

IsList(text) ==
    LET items == SplitOn(text, ",", 1, <<>>, <<>>)
    IN  \A k \in 1..Len(items) : IsNumber(items[k])

\* the token shapes  *  n  a-b  a,b,c  */n  a-b/n
IsTokenShape(text) ==
    LET parts == SplitOn(text, "/", 1, <<>>, <<>>)
    IN  \/ text = <<"*">>
        \/ IsNumber(text)
        \/ IsRange(text)
        \/ IsList(text)
        \/ Len(parts) = 2 /\ parts[1] = <<"*">> /\ IsNumber(parts[2])
        \/ Len(parts) = 2 /\ IsRange(parts[1]) /\ IsNumber(parts[2])

\* C18: for a list of FieldValues of any length and either format the text
\* of buildCronExpression splits on single spaces into exactly 5 or 6
\* non-empty tokens of the token shapes: the first FieldValues serialized in
\* order, the entries beyond the count dropped, the missing ones "*".
C18_BuiltFieldCount ==
    buildOp = "buildCronExpression" =>
        LET expected == IF buildFormat = "6-field" THEN 6 ELSE 5
            tokens == Tokens(built)
        IN  /\ Len(tokens) = expected
            /\ \A k \in 1..Len(tokens) :
                 /\ tokens[k] # <<>>
                 /\ IsTokenShape(tokens[k])
                 /\ k <= Len(buildFields) => tokens[k] = buildFieldValue(buildFields[k])
                 /\ k > Len(buildFields) => tokens[k] = <<"*">>

\* C19: getDefaultFieldValues gives exactly 5 wildcard values for the
\* 5-field format and 6 for the 6-field format, and buildCronExpression of
\* them is "* * * * *" respectively "* * * * * *".
C19_BuilderDefaults ==
    buildOp = "getDefaultFieldValues" =>
        /\ Len(defaultValues) = (IF buildFormat = "6-field" THEN 6 ELSE 5)
        /\ \A k \in 1..Len(defaultValues) : defaultValues[k] = TypeOnly("wildcard")
        /\ buildCronExpression(defaultValues, buildFormat)
             = (IF buildFormat = "6-field"
                THEN <<"*", " ", "*", " ", "*", " ", "*", " ", "*", " ", "*">>
                ELSE <<"*", " ", "*", " ", "*", " ", "*", " ", "*">>)

C19_Witness ==
    /\ buildOp = "getDefaultFieldValues"
    /\ buildFormat = "6-field"
    /\ Len(defaultValues) = 6
    /\ buildCronExpression(defaultValues, "6-field")
         = <<"*", " ", "*", " ", "*", " ", "*", " ", "*", " ", "*">>

(***************************************************************************)
(* The cron page.  Its state is the $state variables of the component; an  *)
(* action is one event handler followed by the effects it triggers.  On    *)
(* the page cronstrue and cron-parser are taken to accept the texts they   *)
(* are given, except where an action says otherwise.                       *)
(***************************************************************************)
\* the expressions of the reference table
CRON_EXAMPLES ==
    << <<"*", " ", "*", " ", "*", " ", "*", " ", "*">>,
       <<"0", " ", "*", " ", "*", " ", "*", " ", "*">>,
       <<"0", " ", "0", " ", "*", " ", "*", " ", "*">>,
       <<"0", " ", "9", " ", "*", " ", "*", " ", "*">>,
       <<"0", " ", "9", " ", "*", " ", "*", " ", "1", "-", "5">>,
       <<"*", "/", "1", "5", " ", "*", " ", "*", " ", "*", " ", "*">>,
       <<"0", " ", "*", "/", "2", " ", "*", " ", "*", " ", "*">>,
       <<"0", " ", "0", " ", "*", " ", "*", " ", "0">>,
       <<"0", " ", "0", " ", "1", " ", "*", " ", "*">>,
       <<"0", " ", "0", " ", "1", " ", "1", " ", "*">>,
       <<"3", "0", " ", "4", " ", "1", ",", "1", "5", " ", "*", " ", "*">>,
       <<"0", " ", "2", "2", " ", "*", " ", "*", " ", "1", "-", "5">> >>

\* the expressions of the Try buttons
QuickExamples ==
    << <<"*", " ", "*", " ", "*", " ", "*", " ", "*">>,
       <<"0", " ", "9", " ", "*", " ", "*", " ", "1", "-", "5">>,
       <<"*", "/", "1", "5", " ", "*", " ", "*", " ", "*", " ", "*">>,
       <<"0", " ", "0", " ", "1", " ", "*", " ", "*">>,
       <<"@", "d", "a", "i", "l", "y">>,
       <<"@", "h", "o", "u", "r", "l", "y">> >>

\* Object.keys(SPECIAL_STRINGS), in the order of the table
SpecialStringKeys ==
    << <<"@", "y", "e", "a", "r", "l", "y">>,
       <<"@", "a", "n", "n", "u", "a", "l", "l", "y">>,
       <<"@", "m", "o", "n", "t", "h", "l", "y">>,
       <<"@", "w", "e", "e", "k", "l", "y">>,
       <<"@", "d", "a", "i", "l", "y">>,
       <<"@", "m", "i", "d", "n", "i", "g", "h", "t">>,
       <<"@", "h", "o", "u", "r", "l", "y">>,
       <<"@", "r", "e", "b", "o", "o", "t">> >>

\* texts typed or pasted into the expression input
TypedExpressions ==
    { <<" ", "@", "r", "e", "b", "o", "o", "t">>,
      <<"@", "R", "E", "B", "O", "O", "T">>,
      <<"@", "r", "e", "b", "o", "o", "t", " ", "\t">>,
      <<"c", "o", "n", "s", "t", "r", "u", "c", "t", "o", "r">>,
      <<"6", "0", " ", "*", " ", "*", " ", "*", " ", "*">>,
      <<"*", "/", "5", " ", "*", " ", "*", " ", "*", " ", "*", " ", "*">>,
      <<" ", " ", " ">> }

\* the options of the Next Runs select that are sampled
NextRunCountOptions == {1, 5, 20}

\* the libraries accepting every text, the schedule with MaxMatches matches
PageLib == [cronstrue |-> TRUE, parser |-> TRUE, matches |-> MaxMatches]

\* what the libraries answer to a text typed into the parser: all accepted
\* with or without future matches, or rejected by the one or by the other
PageLibs ==
    {lib \in Libs : (lib.cronstrue /\ lib.parser /\ lib.matches \in {0, MaxMatches})
                    \/ (lib.cronstrue # lib.parser /\ lib.matches = MaxMatches)}

\* the first effect: parseResult for the expression of the input
ParseEffect(text, count, lib) ==
    IF Trim(text) # <<>>
    THEN Present(parseCronExpression(text, count, lib).result)
    ELSE Absent

\* the second effect: builderExpression and builderParseResult for the
\* field values; the result is left as it was when the text is blank
BuilderEffect(values, format, previous, lib) ==
    LET text == buildCronExpression(values, format)
    IN  [builderExpression |-> text,
         builderParseResult |->
            IF Trim(text) # <<>>
            THEN Present(parseCronExpression(text, 5, lib).result)
            ELSE previous]
\* the page as constructed: the initial values of its $state variables
PageIdle ==
    /\ mounted = FALSE
    /\ activeTab = "parser"
    /\ pageExpression = <<"0", " ", "9", " ", "*", " ", "*", " ", "1", "-", "5">>
    /\ pageNextRunCount = 5
    /\ parseResult = Absent
    /\ builderFormat = "5-field"
    /\ fieldValues = getDefaultFieldValues("5-field")
    /\ builderExpression = <<"*", " ", "*", " ", "*", " ", "*", " ", "*">>
    /\ builderParseResult = Absent

parserVars == <<pageExpression, pageNextRunCount, parseResult>>
builderVars == <<builderFormat, fieldValues, builderExpression, builderParseResult>>

getBuilderFields == IF builderFormat = "6-field" THEN CRON_FIELDS_6 ELSE CRON_FIELDS_5

\* mutant: the value added at the end instead of replacing the entry
updateFieldValueAppended(index, value) == Append(fieldValues, value)

\* fieldValues.map((v, i) => (i === index ? value : v)), counting from 1
updateFieldValue(index, value) ==
    [k \in 1..Len(fieldValues) |-> IF k = index THEN value ELSE fieldValues[k]]

\* fieldValues[i] || { type: 'wildcard' }
fieldValueAt(i) ==
    IF i \in 1..Len(fieldValues) THEN fieldValues[i] ELSE TypeOnly("wildcard")

\* the value of a run of decimal digits
RECURSIVE ParseDigits(_, _, _)
ParseDigits(text, i, acc) ==
    IF i > Len(text) \/ text[i] \notin Range(Digits) THEN acc
    ELSE ParseDigits(text, i + 1, acc * 10 + IndexOf(Digits, text[i]) - 1)

\* parseInt(text) of an unsigned text: Absent for NaN
parseInt(text) ==
    LET t == TrimStart(text)
    IN  IF t = <<>> \/ t[1] \notin Range(Digits) THEN Absent
        ELSE Present(ParseDigits(t, 1, 0))

\* parseInt(text) || d
ParseIntOr(text, d) ==
    LET n == parseInt(text)
    IN  IF n = Absent \/ n[1] = 0 THEN d ELSE n[1]

\* the list input's handler: the numbers of the text that lie in the field
ParseListValues(text, field) ==
    LET pieces == SplitOn(text, ",", 1, <<>>, <<>>)
        numbers == [k \in 1..Len(pieces) |-> parseInt(Trim(pieces[k]))]
        values == SelectSeq(numbers, LAMBDA n :
                      n # Absent /\ n[1] >= field.min /\ n[1] <= field.max)
    IN  IF Len(values) > 0 THEN [k \in 1..Len(values) |-> values[k][1]]
        ELSE <<field.min>>

\* the texts entered into a number input, and into the list input
NumberTexts == { <<>>, <<"7">> }
ListTexts == { <<>>, <<"1", ",", " ", "3">> }

\* the fields whose type is set to any type and whose values are edited;
\* on the other fields, up to the MaxSelectedField-th, only 'list' is selected
EditedFields == {1}
MaxSelectedField == 5
TypeSelections ==
    {s \in (1..Len(getBuilderFields)) \X FieldValueTypes :
        s[1] \in EditedFields \/ (s[1] <= MaxSelectedField /\ s[2] = "list")}

\* the effects run for the first time
Mount ==
    /\ ~mounted
    /\ mounted' = TRUE
    /\ parseResult' = ParseEffect(pageExpression, pageNextRunCount, PageLib)
    /\ LET shown == BuilderEffect(fieldValues, builderFormat, builderParseResult, PageLib)
       IN  /\ builderExpression' = shown.builderExpression
           /\ builderParseResult' = shown.builderParseResult
    /\ UNCHANGED <<activeTab, pageExpression, pageNextRunCount, builderFormat, fieldValues>>
    /\ UNCHANGED <<idVars, cronVars, buildVars, regexVars, uuidPageVars>>

ShowParser ==
    /\ mounted
    /\ activeTab' = "parser"
    /\ UNCHANGED <<mounted, parserVars, builderVars>>
    /\ UNCHANGED <<idVars, cronVars, buildVars, regexVars, uuidPageVars>>

ShowBuilder ==
    /\ mounted
    /\ activeTab' = "builder"
    /\ UNCHANGED <<mounted, parserVars, builderVars>>
    /\ UNCHANGED <<idVars, cronVars, buildVars, regexVars, uuidPageVars>>

\* expression or nextRunCount assigned: the first effect runs again when
\* one of them changed
ParserChange(text, count) ==
    /\ pageExpression' = text
    /\ pageNextRunCount' = count
    /\ IF text = pageExpression /\ count = pageNextRunCount
       THEN parseResult' = parseResult
       ELSE \E lib \in PageLibs : parseResult' = ParseEffect(text, count, lib)

TypeExpression ==
    /\ mounted /\ activeTab = "parser"
    /\ \E text \in TypedExpressions : ParserChange(text, pageNextRunCount)
    /\ UNCHANGED <<mounted, activeTab, builderVars>>
    /\ UNCHANGED <<idVars, cronVars, buildVars, regexVars, uuidPageVars>>

SelectNextRunCount ==
    /\ mounted /\ activeTab = "parser"
    /\ \E count \in NextRunCountOptions : ParserChange(pageExpression, count)
    /\ UNCHANGED <<mounted, activeTab, builderVars>>
    /\ UNCHANGED <<idVars, cronVars, buildVars, regexVars, uuidPageVars>>

\* a Try button: loadExample(example)
LoadQuickExample ==
    /\ mounted /\ activeTab = "parser"
    /\ \E k \in 1..Len(QuickExamples) : ParserChange(QuickExamples[k], pageNextRunCount)
    /\ UNCHANGED <<mounted, activeTab, builderVars>>
    /\ UNCHANGED <<idVars, cronVars, buildVars, regexVars, uuidPageVars>>

\* a row of the reference table: loadExample(example.expression), parser tab
LoadReferenceExample ==
    /\ mounted
    /\ \E k \in 1..Len(CRON_EXAMPLES) : ParserChange(CRON_EXAMPLES[k], pageNextRunCount)
    /\ activeTab' = "parser"
    /\ UNCHANGED <<mounted, builderVars>>
    /\ UNCHANGED <<idVars, cronVars, buildVars, regexVars, uuidPageVars>>

\* a row of the special strings table: loadExample(key), parser tab
LoadSpecialString ==
    /\ mounted
    /\ \E k \in 1..Len(SpecialStringKeys) :
          ParserChange(SpecialStringKeys[k], pageNextRunCount)
    /\ activeTab' = "parser"
    /\ UNCHANGED <<mounted, builderVars>>
    /\ UNCHANGED <<idVars, cronVars, buildVars, regexVars, uuidPageVars>>

HandleClear ==
    /\ mounted /\ activeTab = "parser"
    /\ pageExpression' = <<>>
    /\ parseResult' = Absent
    /\ UNCHANGED <<mounted, activeTab, pageNextRunCount, builderVars>>
    /\ UNCHANGED <<idVars, cronVars, buildVars, regexVars, uuidPageVars>>

UseInParser ==
    /\ mounted /\ activeTab = "builder"
    /\ ParserChange(builderExpression, pageNextRunCount)
    /\ activeTab' = "parser"
    /\ UNCHANGED <<mounted, builderVars>>
    /\ UNCHANGED <<idVars, cronVars, buildVars, regexVars, uuidPageVars>>

\* fieldValues and builderFormat assigned: the second effect runs again
BuilderChange(values, format) ==
    /\ fieldValues' = values
    /\ builderFormat' = format
    /\ LET shown == BuilderEffect(values, format, builderParseResult, PageLib)
       IN  /\ builderExpression' = shown.builderExpression
           /\ builderParseResult' = shown.builderParseResult

HandleFormatChange ==
    /\ mounted /\ activeTab = "builder"
    /\ \E format \in Formats :
          /\ format # builderFormat
          /\ BuilderChange(getDefaultFieldValues(format), format)
    /\ UNCHANGED <<mounted, activeTab, parserVars>>
    /\ UNCHANGED <<idVars, cronVars, buildVars, regexVars, uuidPageVars>>

\* the type select of a field: updateFieldValue(i, { type })
SelectFieldType ==
    /\ mounted /\ activeTab = "builder"
    /\ \E s \in TypeSelections :
          BuilderChange(updateFieldValue(s[1], TypeOnly(s[2])), builderFormat)
    /\ UNCHANGED <<mounted, activeTab, parserVars>>
    /\ UNCHANGED <<idVars, cronVars, buildVars, regexVars, uuidPageVars>>

ChangeSpecific ==
    /\ mounted /\ activeTab = "builder"
    /\ \E i \in EditedFields, text \in NumberTexts :
          /\ i <= Len(getBuilderFields)
          /\ fieldValueAt(i).type = "specific"
          /\ BuilderChange(
                updateFieldValue(i, [fieldValueAt(i) EXCEPT
                    !.specific = Present(ParseIntOr(text, getBuilderFields[i].min))]),
                builderFormat)
    /\ UNCHANGED <<mounted, activeTab, parserVars>>
    /\ UNCHANGED <<idVars, cronVars, buildVars, regexVars, uuidPageVars>>

ChangeRangeStart ==
    /\ mounted /\ activeTab = "builder"
    /\ \E i \in EditedFields, text \in NumberTexts :
          /\ i <= Len(getBuilderFields)
          /\ fieldValueAt(i).type \in {"range", "rangeStep"}
          /\ BuilderChange(
                updateFieldValue(i, [fieldValueAt(i) EXCEPT
                    !.rangeStart = Present(ParseIntOr(text, getBuilderFields[i].min))]),
                builderFormat)
    /\ UNCHANGED <<mounted, activeTab, parserVars>>
    /\ UNCHANGED <<idVars, cronVars, buildVars, regexVars, uuidPageVars>>

ChangeRangeEnd ==
    /\ mounted /\ activeTab = "builder"
    /\ \E i \in EditedFields, text \in NumberTexts :
          /\ i <= Len(getBuilderFields)
          /\ fieldValueAt(i).type \in {"range", "rangeStep"}
          /\ BuilderChange(
                updateFieldValue(i, [fieldValueAt(i) EXCEPT
                    !.rangeEnd = Present(ParseIntOr(text, getBuilderFields[i].max))]),
                builderFormat)
    /\ UNCHANGED <<mounted, activeTab, parserVars>>
    /\ UNCHANGED <<idVars, cronVars, buildVars, regexVars, uuidPageVars>>

ChangeListValues ==
    /\ mounted /\ activeTab = "builder"
    /\ \E i \in EditedFields, text \in ListTexts :
          /\ i <= Len(getBuilderFields)
          /\ fieldValueAt(i).type = "list"
          /\ BuilderChange(
                updateFieldValue(i, [fieldValueAt(i) EXCEPT
                    !.listValues = Present(ParseListValues(text, getBuilderFields[i]))]),
                builderFormat)
    /\ UNCHANGED <<mounted, activeTab, parserVars>>
    /\ UNCHANGED <<idVars, cronVars, buildVars, regexVars, uuidPageVars>>

ChangeStep ==
    /\ mounted /\ activeTab = "builder"
    /\ \E i \in EditedFields, text \in NumberTexts :
          /\ i <= Len(getBuilderFields)
          /\ fieldValueAt(i).type \in {"step", "rangeStep"}
          /\ BuilderChange(
                updateFieldValue(i, [fieldValueAt(i) EXCEPT
                    !.step = Present(ParseIntOr(text, 1))]),
                builderFormat)
    /\ UNCHANGED <<mounted, activeTab, parserVars>>
    /\ UNCHANGED <<idVars, cronVars, buildVars, regexVars, uuidPageVars>>

\* the Reset button
ResetBuilder ==
    /\ mounted /\ activeTab = "builder"
    /\ BuilderChange(getDefaultFieldValues(builderFormat), builderFormat)
    /\ UNCHANGED <<mounted, activeTab, parserVars>>
    /\ UNCHANGED <<idVars, cronVars, buildVars, regexVars, uuidPageVars>>

NextParserTab ==
    \/ Mount
    \/ ShowParser
    \/ ShowBuilder
    \/ TypeExpression
    \/ SelectNextRunCount
    \/ LoadQuickExample
    \/ LoadReferenceExample
    \/ LoadSpecialString
    \/ HandleClear
    \/ UseInParser

NextBuilderTab ==
    \/ Mount
    \/ ShowParser
    \/ ShowBuilder
    \/ HandleFormatChange
    \/ SelectFieldType
    \/ ChangeSpecific
    \/ ChangeRangeStart
    \/ ChangeRangeEnd
    \/ ChangeListValues
    \/ ChangeStep
    \/ ResetBuilder

\* what the parser tab renders below the status
NextRunsShown ==
    /\ activeTab = "parser"
    /\ parseResult # Absent
    /\ parseResult[1].valid
    /\ parseResult[1].nextRuns # Absent
    /\ Len(parseResult[1].nextRuns[1]) > 0

RebootExplanationShown ==
    /\ activeTab = "parser"
    /\ ~NextRunsShown
    /\ parseResult # Absent
    /\ parseResult[1].valid
    /\ parseResult[1].isSpecialString
    /\ ToLowerCase(pageExpression) = <<"@", "r", "e", "b", "o", "o", "t">>

(***************************************************************************)
(* Properties of the cron page.                                            *)
(***************************************************************************)
\* C16: in every state of the builder reached by format changes, type
\* selections, value edits and resets, the generated expression, given to
\* parseCronExpression, yields valid = true -- here even with libraries that
\* accept every text they are given.
C16_BuilderOutputValid ==
    mounted => parseCronExpression(builderExpression, 5, PageLib).result.valid

\* whether the text of the input names @reboot, as the engine reads it
IsRebootText(text) == ToLowerCase(Trim(text)) = <<"@", "r", "e", "b", "o", "o", "t">>

\* C20: on the parser tab, whenever the expression of the input has parsed
\* as the valid special string @reboot (valid, isSpecialString, no next
\* runs), the explanation that @reboot has no scheduled runs is displayed.
C20_RebootExplanation ==
    ( /\ mounted
      /\ activeTab = "parser"
      /\ parseResult # Absent
      /\ parseResult[1].valid
      /\ parseResult[1].isSpecialString
      /\ parseResult[1].nextRuns = Present(<<>>)
      /\ IsRebootText(pageExpression) )
    => RebootExplanationShown

\* C25: once the effect has run, builderParseResult is the parse of the
\* builderExpression that is displayed; the preview never shows the
\* description or the error of an earlier expression.
C25_PreviewFresh ==
    mounted =>
        builderParseResult = Present(parseCronExpression(builderExpression, 5, PageLib).result)

\* the number of fields of a format
FieldCount(format) == IF format = "6-field" THEN 6 ELSE 5

\* C29: in every state of the builder, fieldValues has as many entries as
\* the selected format has fields, and the expression built is the entries'
\* texts joined, one per field: nothing is padded and nothing is cut.
C29_BuilderModelLength ==
    /\ Len(fieldValues) = FieldCount(builderFormat)
    /\ Len(fieldValues) = Len(getBuilderFields)
    /\ mounted =>
          builderExpression =
              Join([k \in 1..Len(fieldValues) |-> buildFieldValue(fieldValues[k])], <<" ">>)

\* a six-field builder after a type selection and a value edit
C29_Witness ==
    /\ mounted
    /\ builderFormat = "6-field"
    /\ Len(fieldValues) = 6
    /\ fieldValues[1].type = "range"
    /\ fieldValues[1].rangeEnd = Present(7)
    /\ fieldValues[3].type = "list"

(***************************************************************************)
(* Validation against parsing.                                             *)
(***************************************************************************)
\* C28: validateCronExpression(e).valid equals parseCronExpression(e).valid
\* for every text e -- here for every answer of the libraries that agrees
\* with the validation returned and in which cron-parser accepts what it is
\* given.
C28_ValidationAgreesWithParsing ==
    (cronOp = "validateCronExpression" /\ validationResult # Absent) =>
        \A lib \in Libs :
            ( /\ lib.parser
              /\ validateCronExpression(cronExpr, lib).valid = validationResult[1].valid )
            => parseCronExpression(cronExpr, 5, lib).result.valid = validationResult[1].valid

(***************************************************************************)
(* The generator beyond 48 bits of clock.                                  *)
(***************************************************************************)
\* C27: for a clock value of 2^48 or more (below 2^53) generateUUIDv7 still
\* returns 36 characters, hyphens at 8, 13, 18, 23 and lower-case hex digits
\* elsewhere, with version nibble 7 and variant bits 10, and its first six
\* bytes are the clock value modulo 2^48.
C27_UUIDv7TimestampOverflow ==
    (idOp = "generateUUIDv7" /\ ~NumLess(draws[1].timestamp, TwoPow48)) =>
        LET id == output[1]
            bytes == UUIDBytes(id)
            t == draws[1].timestamp
        IN  /\ Len(id) = 36
            /\ \A k \in 0..35 :
                  IF k \in {8, 13, 18, 23}
                  THEN id[k + 1] = "-" ELSE id[k + 1] \in LowerHexChars
            /\ bytes[6] \div 16 = 7
            /\ bytes[8] \div 64 = 2
            /\ DecodeUUIDv7Timestamp(id) = Num(t.hi % W, t.lo)

\* the clock at 2^53 - 3: the bytes hold 2^48 - 3
C27_Witness ==
    /\ idOp = "generateUUIDv7"
    /\ draws[1].timestamp = Num(32 * W - 1, W - 3)
    /\ DecodeUUIDv7Timestamp(output[1]) = Num(W - 1, W - 3)
    /\ UUIDBytes(output[1])[6] \div 16 = 7

(***************************************************************************)
(* The regex tester.  The regular expression engine is outside the         *)
(* program: a pattern is what it is to the engine on the input at hand.    *)
(*   kind     "empty" for the empty pattern, "invalid" for a pattern or    *)
(*            flags new RegExp rejects, "ok" otherwise;                    *)
(*   lengths  lengths[i + 1] is the length of the match that starts at     *)
(*            index i of the input, -1 when none starts there;             *)
(*   groups   whether a capture group takes part in every match;           *)
(*   inside   the indices that lie inside a surrogate pair when the flags  *)
(*            include 'u': a search that starts there starts at the pair.  *)
(***************************************************************************)
\* maxIterations of testRegex
maxIterations == 10000

\* the first index from i on at which a match starts, Len(lengths) when none
RECURSIVE FirstMatch(_, _)
FirstMatch(lengths, i) ==
    IF i >= Len(lengths) THEN Len(lengths)
    ELSE IF lengths[i + 1] >= 0 THEN i
    ELSE FirstMatch(lengths, i + 1)

\* regex.exec(input) with regex.lastIndex = from: Absent for null, else the
\* match's index and length; lastIndex becomes the match's end, 0 after null
exec(pattern, from) ==
    IF from >= Len(pattern.lengths) THEN Absent
    ELSE LET start == FirstMatch(pattern.lengths, IF from \in pattern.inside THEN from - 1 ELSE from)
         IN  IF start >= Len(pattern.lengths) THEN Absent
             ELSE Present([index |-> start, length |-> pattern.lengths[start + 1]])

\* the RegexMatch testRegex pushes for a match of exec
RegexMatch(input, pattern, found, position) ==
    LET text == SubSeq(input, found.index + 1, found.index + found.length)
    IN  [index  |-> position,
         match  |-> text,
         start  |-> found.index,
         end    |-> found.index + found.length,
         groups |-> IF pattern.groups THEN <<text>> ELSE <<>>]

\* the result of testRegex for a pattern without matches to report
NoMatches == [valid |-> TRUE, matches |-> <<>>, matchCount |-> 0]

\* the result of testRegex's catch block
InvalidRegex == [valid |-> FALSE, matches |-> <<>>, matchCount |-> 0]

\* the result testRegex returns after its try block
Matched(found) == [valid |-> TRUE, matches |-> found, matchCount |-> Len(found)]

\* the loop of testRegex without its iteration limit
LoopContinuesUnlimited(pattern, from, count) == exec(pattern, from) # Absent

\* the condition of testRegex's while loop
LoopContinues(pattern, from, count) ==
    exec(pattern, from) # Absent /\ count < maxIterations

\* the body of the loop on what it holds at the start of an iteration
LoopBody(input, pattern, loop) ==
    LET found == exec(pattern, loop.lastIndex)[1]
    IN  [lastIndex  |-> found.index + found.length + (IF found.length = 0 THEN 1 ELSE 0),
         iterations |-> loop.iterations + 1,
         matches    |-> Append(loop.matches,
                               RegexMatch(input, pattern, found, Len(loop.matches)))]

\* what the loop holds after at most n more iterations, n > 0: the first half
\* of them, then the rest
RECURSIVE Iterate(_, _, _, _)
Iterate(input, pattern, loop, n) ==
    IF ~LoopContinues(pattern, loop.lastIndex, loop.iterations) THEN loop
    ELSE IF n = 1 THEN LoopBody(input, pattern, loop)
    ELSE Iterate(input, pattern, Iterate(input, pattern, loop, n \div 2), n - (n \div 2))

\* the iterations followed before the loop is given up as endless
LoopFuel == maxIterations + 1

\* escapeHtml that leaves the apostrophe alone
htmlEntityNoApostrophe(char) ==
    CASE char = "&" -> <<"&", "a", "m", "p", ";">>
      [] char = "<" -> <<"&", "l", "t", ";">>
      [] char = ">" -> <<"&", "g", "t", ";">>
      [] char = "\"" -> <<"&", "q", "u", "o", "t", ";">>
      [] OTHER -> <<char>>

\* htmlEntities[char] for the characters escapeHtml replaces, the character otherwise
htmlEntity(char) ==
    CASE char = "&" -> <<"&", "a", "m", "p", ";">>
      [] char = "<" -> <<"&", "l", "t", ";">>
      [] char = ">" -> <<"&", "g", "t", ";">>
      [] char = "\"" -> <<"&", "q", "u", "o", "t", ";">>
      [] char = "'" -> <<"&", "#", "3", "9", ";">>
      [] OTHER -> <<char>>

RECURSIVE escapeHtml(_)
escapeHtml(text) ==
    IF text = <<>> THEN <<>> ELSE htmlEntity(Head(text)) \o escapeHtml(Tail(text))

highlightColors ==
    << <<"b", "g", "-", "w", "a", "r", "n", "i", "n", "g", "/", "5", "0">>,
       <<"b", "g", "-", "p", "r", "i", "m", "a", "r", "y", "/", "4", "0">>,
       <<"b", "g", "-", "s", "e", "c", "o", "n", "d", "a", "r", "y", "/", "4", "0">>,
       <<"b", "g", "-", "a", "c", "c", "e", "n", "t", "/", "4", "0">>,
       <<"b", "g", "-", "s", "u", "c", "c", "e", "s", "s", "/", "4", "0">>,
       <<"b", "g", "-", "e", "r", "r", "o", "r", "/", "4", "0">> >>

getHighlightColor(index) ==
    IF index = 0 THEN highlightColors[1]
    ELSE highlightColors[((index - 1) % (Len(highlightColors) - 1)) + 2]

\* the matches with one more placed after those that do not start later
RECURSIVE InsertByStart(_, _)
InsertByStart(sorted, match) ==
    IF sorted = <<>> THEN <<match>>
    ELSE IF sorted[Len(sorted)].start <= match.start THEN Append(sorted, match)
    ELSE Append(InsertByStart(SubSeq(sorted, 1, Len(sorted) - 1), match), sorted[Len(sorted)])

\* [...matches].sort((a, b) => a.start - b.start)
RECURSIVE SortByStart(_)
SortByStart(found) ==
    IF found = <<>> THEN <<>>
    ELSE InsertByStart(SortByStart(SubSeq(found, 1, Len(found) - 1)), found[Len(found)])

MarkOpen(colorClass) ==
    <<"<", "m", "a", "r", "k", " ", "c", "l", "a", "s", "s", "=", "\"">> \o colorClass \o <<" ", "r", "o", "u", "n", "d", "e", "d", " ", "p", "x", "-", "0", ".", "5", "\"", ">">>

MarkClose == <<"<", "/", "m", "a", "r", "k", ">">>

\* the loop of generateHighlightedHtml from the k-th sorted match on
RECURSIVE HighlightFrom(_, _, _, _, _)
HighlightFrom(input, sortedMatches, k, lastEnd, html) ==
    IF k > Len(sortedMatches)
    THEN IF lastEnd < Len(input)
         THEN html \o escapeHtml(SubSeq(input, lastEnd + 1, Len(input)))
         ELSE html
    ELSE LET match == sortedMatches[k]
             before == IF match.start > lastEnd
                       THEN escapeHtml(SubSeq(input, lastEnd + 1, match.start))
                       ELSE <<>>
             colorClass == IF Len(match.groups) > 0 THEN getHighlightColor(1)
                           ELSE getHighlightColor(0)
         IN  IF match.start < lastEnd
             THEN HighlightFrom(input, sortedMatches, k + 1, lastEnd, html)
             ELSE HighlightFrom(input, sortedMatches, k + 1, match.end,
                                html \o before \o MarkOpen(colorClass)
                                     \o escapeHtml(match.match) \o MarkClose)

generateHighlightedHtml(input, found) ==
    IF Len(found) = 0 THEN escapeHtml(input)
    ELSE HighlightFrom(input, SortByStart(found), 1, 0, <<>>)

(***************************************************************************)
(* The inputs of the regex tester: texts with the characters HTML gives a  *)
(* meaning to, each with every pattern the engine can see on it, and two   *)
(* inputs on which a pattern goes on matching the empty string.            *)
(***************************************************************************)
\* texts typed into the test string
RegexTexts ==
    { <<"<">>,
      <<"&", "a">>,
      <<"a", ">">>,
      <<"'", "\"">>,
      <<"<", "&", ">">>,
      <<"a", "\"", "b">>,
      <<"&", "l", "t", ";">> }

\* the lengths a pattern can have at each index of a text of n characters
AllLengths(n) ==
    { lengths \in [1..(n + 1) -> -1..n] : \A i \in 1..(n + 1) : lengths[i] <= n + 1 - i }

\* the patterns on a text of n characters, without the flag u
PatternsOn(n) ==
    { [kind |-> "ok", lengths |-> lengths, groups |-> groups, inside |-> {}] :
          lengths \in AllLengths(n), groups \in BOOLEAN }

\* a pattern the engine rejects and the empty pattern
InvalidPattern == [kind |-> "invalid", lengths |-> <<-1>>, groups |-> FALSE, inside |-> {}]
EmptyPattern == [kind |-> "empty", lengths |-> <<-1>>, groups |-> FALSE, inside |-> {}]

\* an input as long as the limit, and (?:) on it: a match at every index
\* (SubSeq makes the function a sequence value)
LongInput == SubSeq([i \in 1..maxIterations |-> "a"], 1, maxIterations)
EmptyEverywhere ==
    [kind |-> "ok", lengths |-> SubSeq([i \in 1..(maxIterations + 1) |-> 0], 1, maxIterations + 1),
     groups |-> FALSE,
     inside |-> {}]

\* one character outside the basic plane, two code units, and (?:) with the
\* flag u on it: index 1 is inside the pair
PairInput == <<"h", "l">>
EmptyInPair ==
    [kind |-> "ok", lengths |-> <<0, -1, 0>>, groups |-> FALSE, inside |-> {1}]

\* the calls of testRegex: pattern, whether the flags include g, input
RegexCalls ==
    { [pattern |-> p, global |-> g, input |-> t] :
          p \in {InvalidPattern, EmptyPattern}, g \in BOOLEAN, t \in RegexTexts \cup {<<>>} }
    \cup UNION { { [pattern |-> p, global |-> g, input |-> t] :
                       p \in PatternsOn(Len(t)), g \in BOOLEAN } : t \in RegexTexts }
    \cup { [pattern |-> EmptyEverywhere, global |-> TRUE, input |-> LongInput],
           [pattern |-> EmptyInPair, global |-> TRUE, input |-> PairInput],
           [pattern |-> EmptyInPair, global |-> FALSE, input |-> PairInput] }

(***************************************************************************)
(* The regex tester's state machine: the page calls testRegex and, when    *)
(* the result is valid, generateHighlightedHtml on what it returned.       *)
(***************************************************************************)
RegexIdle ==
    /\ rxOp = "none"
    /\ rxInput = <<>>
    /\ rxPattern = EmptyPattern
    /\ rxGlobal = FALSE
    /\ lastIndex = 0
    /\ iterations = 0
    /\ rxMatches = <<>>
    /\ rxResult = Absent
    /\ rxHtml = Absent

\* the inputs whose highlighting is computed
MaxHighlightLength == 4

\* testRegex: the early returns, new RegExp, the loop or the first match, the
\* return.  A loop that is still going after LoopFuel iterations has not returned.
TestRegex ==
    /\ rxOp = "none"
    /\ \E call \in RegexCalls :
        /\ rxInput' = call.input
        /\ rxPattern' = call.pattern
        /\ rxGlobal' = call.global
        /\ IF call.pattern.kind = "empty" \/ call.input = <<>>
           THEN /\ rxOp' = "returned" /\ rxMatches' = <<>> /\ rxResult' = Present(NoMatches)
                /\ lastIndex' = 0 /\ iterations' = 0
           ELSE IF call.pattern.kind = "invalid"
           THEN /\ rxOp' = "returned" /\ rxMatches' = <<>> /\ rxResult' = Present(InvalidRegex)
                /\ lastIndex' = 0 /\ iterations' = 0
           ELSE IF call.global
           THEN LET loop == Iterate(call.input, call.pattern,
                                    [lastIndex |-> 0, iterations |-> 0, matches |-> <<>>],
                                    LoopFuel)
                IN  /\ lastIndex' = loop.lastIndex
                    /\ iterations' = loop.iterations
                    /\ rxMatches' = loop.matches
                    /\ IF LoopContinues(call.pattern, loop.lastIndex, loop.iterations)
                       THEN rxOp' = "loop" /\ rxResult' = Absent
                       ELSE rxOp' = "returned" /\ rxResult' = Present(Matched(loop.matches))
           ELSE LET found == exec(call.pattern, 0)
                    first == IF found = Absent THEN <<>>
                             ELSE <<RegexMatch(call.input, call.pattern, found[1], 0)>>
                IN  /\ rxOp' = "returned" /\ rxMatches' = first
                    /\ rxResult' = Present(Matched(first))
                    /\ lastIndex' = 0 /\ iterations' = 0
    /\ UNCHANGED rxHtml
    /\ UNCHANGED <<idVars, cronVars, buildVars, pageVars, uuidPageVars>>

\* the page's highlightedText for a valid result
Highlight ==
    /\ rxOp = "returned"
    /\ rxResult[1].valid
    /\ Len(rxInput) <= MaxHighlightLength
    /\ Len(rxMatches) <= MaxHighlightLength + 1
    /\ rxOp' = "highlighted"
    /\ rxHtml' = Present(generateHighlightedHtml(rxInput, rxResult[1].matches))
    /\ UNCHANGED <<rxInput, rxPattern, rxGlobal, lastIndex, iterations, rxMatches, rxResult>>
    /\ UNCHANGED <<idVars, cronVars, buildVars, pageVars, uuidPageVars>>

\* the pattern, the flags or the test string are edited again
RegexEdit ==
    /\ rxOp \in {"returned", "highlighted"}
    /\ rxOp' = "none"
    /\ rxInput' = <<>>
    /\ rxPattern' = EmptyPattern
    /\ rxGlobal' = FALSE
    /\ lastIndex' = 0
    /\ iterations' = 0
    /\ rxMatches' = <<>>
    /\ rxResult' = Absent
    /\ rxHtml' = Absent
    /\ UNCHANGED <<idVars, cronVars, buildVars, pageVars, uuidPageVars>>

NextRegex == TestRegex \/ Highlight \/ RegexEdit

(***************************************************************************)
(* Properties of the regex tester.                                         *)
(***************************************************************************)
\* C23: with the global flag testRegex returns for every pattern and input,
\* patterns that match the empty string included: its loop is over within
\* 10000 iterations.  It returns at most 10000 matches, matchCount is their
\* number, and the index of each match is its position in the list, from 0.
C23_IterationCap ==
    /\ rxOp # "loop"
    /\ (rxOp = "returned" /\ rxGlobal) =>
           LET result == rxResult[1]
           IN  /\ iterations <= maxIterations
               /\ Len(result.matches) <= maxIterations
               /\ result.matchCount = Len(result.matches)
               /\ \A k \in 1..Len(result.matches) : result.matches[k].index = k - 1

\* a call with the global flag returned as many matches as the limit allows,
\* all of them empty, while the pattern would have matched once more
C23_Witness ==
    /\ rxOp = "returned"
    /\ rxGlobal
    /\ Len(rxInput) = maxIterations
    /\ iterations = maxIterations
    /\ rxResult[1].matchCount = maxIterations
    /\ rxResult[1].matches[maxIterations].index = maxIterations - 1
    /\ rxResult[1].matches[maxIterations].match = <<>>
    /\ exec(rxPattern, lastIndex) # Absent

StartsWith(text, start) ==
    Len(text) >= Len(start) /\ SubSeq(text, 1, Len(start)) = start

DropFirst(text, n) == SubSeq(text, n + 1, Len(text))

\* the opening tags generateHighlightedHtml can write
MarkOpenings == { MarkOpen(highlightColors[c]) : c \in 1..Len(highlightColors) }

\* the text left when the <mark> wrappers are taken away, and whether every
\* opening tag is closed before the next one opens
RECURSIVE RemoveWrappers(_, _)
RemoveWrappers(html, open) ==
    IF html = <<>> THEN [text |-> <<>>, balanced |-> ~open]
    ELSE IF \E tag \in MarkOpenings : StartsWith(html, tag)
    THEN LET tag == CHOOSE t \in MarkOpenings : StartsWith(html, t)
             rest == RemoveWrappers(DropFirst(html, Len(tag)), TRUE)
         IN  [text |-> rest.text, balanced |-> rest.balanced /\ ~open]
    ELSE IF StartsWith(html, MarkClose)
    THEN LET rest == RemoveWrappers(DropFirst(html, Len(MarkClose)), FALSE)
         IN  [text |-> rest.text, balanced |-> rest.balanced /\ open]
    ELSE LET rest == RemoveWrappers(Tail(html), open)
         IN  [text |-> <<Head(html)>> \o rest.text, balanced |-> rest.balanced]

\* the character references of HTML for the five characters, with the
\* character each stands for
CharacterReferences ==
    { [reference |-> <<"&", "a", "m", "p", ";">>, char |-> "&"],
      [reference |-> <<"&", "l", "t", ";">>, char |-> "<"],
      [reference |-> <<"&", "g", "t", ";">>, char |-> ">"],
      [reference |-> <<"&", "q", "u", "o", "t", ";">>, char |-> "\""],
      [reference |-> <<"&", "#", "3", "9", ";">>, char |-> "'"] }

\* the text an HTML parser reads from character data: references replaced
RECURSIVE Unescape(_)
Unescape(text) ==
    IF text = <<>> THEN <<>>
    ELSE IF \E r \in CharacterReferences : StartsWith(text, r.reference)
    THEN LET r == CHOOSE x \in CharacterReferences : StartsWith(text, x.reference)
         IN  <<r.char>> \o Unescape(DropFirst(text, Len(r.reference)))
    ELSE <<Head(text)>> \o Unescape(Tail(text))

\* character data without markup: none of < > " ' and & only at the start
\* of a character reference
IsCharacterData(text) ==
    \A i \in 1..Len(text) :
        /\ text[i] \notin {"<", ">", "\"", "'"}
        /\ text[i] = "&" =>
               \E r \in CharacterReferences : StartsWith(DropFirst(text, i - 1), r.reference)

\* C24: what generateHighlightedHtml returns for a text and the matches
\* testRegex found in it is the text's characters, each once, in order and
\* escaped, inside and between <mark> wrappers that are the only markup:
\* without the wrappers it is character data that reads as the input text.
C24_HighlightEscaped ==
    rxOp = "highlighted" =>
        LET plain == RemoveWrappers(rxHtml[1], FALSE)
        IN  /\ plain.balanced
            /\ IsCharacterData(plain.text)
            /\ Unescape(plain.text) = rxInput

\* '<&>' highlighted with three matches: '<', '>' and the empty match at the end
C24_Witness ==
    /\ rxOp = "highlighted"
    /\ rxInput = <<"<", "&", ">">>
    /\ Len(rxMatches) = 3
    /\ rxMatches[1].match = <<"<">>
    /\ rxMatches[2].match = <<">">>
    /\ rxMatches[3].match = <<>>
    /\ StartsWith(rxHtml[1], MarkOpen(highlightColors[1]) \o <<"&", "l", "t", ";">> \o MarkClose)

(***************************************************************************)
(* The UUID page.  Its state is the $state variables of the component; an  *)
(* action is one event handler followed by the effects it triggers.  The   *)
(* effect of the page reads output.length, so it runs again whenever       *)
(* output is assigned.                                                     *)
(***************************************************************************)
UuidPageIdle ==
    /\ uuidMounted = FALSE
    /\ uuidTab = "generate"
    /\ uuidType = "uuidv4"
    /\ uuidCount = 5
    /\ uuidUppercase = FALSE
    /\ uuidHyphens = TRUE
    /\ uuidOutput = <<>>
    /\ copySuccess = FALSE
    /\ extractInput = <<>>
    /\ extractResult = Absent
    /\ copiedField = Absent
    /\ clipboardWrites = {}
    /\ timers = {}
    /\ now = 0
    /\ lastHandler = "none"
    /\ copiedAt = Absent
    /\ generatedFrom = Absent

generateVars == <<uuidType, uuidCount, uuidUppercase, uuidHyphens, uuidOutput>>
extractVars == <<extractInput, extractResult, generatedFrom>>
copyVars == <<copySuccess, copiedField, clipboardWrites, timers, now, copiedAt>>

\* Date.now() and the random stream when the page generates
PageClock == Num(106911, 7060224)
PageSeed == [fill |-> 165, val |-> 1, shift |-> 8]

\* handleGenerate with what it assigns to output
handleGenerate(type, count, uppercase, hyphens) ==
    generateMultiple(type, count, [uppercase |-> uppercase, hyphens |-> hyphens],
                     [i \in 1..SafeCount(count) |-> Draw(type, PageClock, 0, PageSeed, i)])

\* the effect: generate when the list is empty
EffectOnOutput(list, type, count, uppercase, hyphens) ==
    IF Len(list) = 0 THEN handleGenerate(type, count, uppercase, hyphens) ELSE list

\* the list after output is assigned in a handler: the effect runs again
AfterAssignment(list, type, count, uppercase, hyphens) ==
    EffectOnOutput(list, type, count, uppercase, hyphens)

\* the page is mounted: the effect runs for the first time
UuidMount ==
    /\ ~uuidMounted
    /\ uuidMounted' = TRUE
    /\ uuidOutput' = EffectOnOutput(uuidOutput, uuidType, uuidCount, uuidUppercase, uuidHyphens)
    /\ lastHandler' = "mount"
    /\ UNCHANGED <<uuidTab, uuidType, uuidCount, uuidUppercase, uuidHyphens>>
    /\ UNCHANGED <<extractVars, copyVars>>
    /\ UNCHANGED <<idVars, cronVars, buildVars, pageVars, regexVars>>

ShowGenerateTab ==
    /\ uuidMounted
    /\ uuidTab' = "generate"
    /\ UNCHANGED <<uuidMounted, generateVars, extractVars, copyVars, lastHandler>>
    /\ UNCHANGED <<idVars, cronVars, buildVars, pageVars, regexVars>>

ShowExtractTab ==
    /\ uuidMounted
    /\ uuidTab' = "extract"
    /\ UNCHANGED <<uuidMounted, generateVars, extractVars, copyVars, lastHandler>>
    /\ UNCHANGED <<idVars, cronVars, buildVars, pageVars, regexVars>>

\* the counts typed into the Count input
MaxTypedCount == 2
TypedCounts == 0..MaxTypedCount

SelectUuidType ==
    /\ uuidMounted /\ uuidTab = "generate"
    /\ \E type \in UUIDTypes : uuidType' = type
    /\ UNCHANGED <<uuidMounted, uuidTab, uuidCount, uuidUppercase, uuidHyphens, uuidOutput>>
    /\ UNCHANGED <<extractVars, copyVars, lastHandler>>
    /\ UNCHANGED <<idVars, cronVars, buildVars, pageVars, regexVars>>

TypeCount ==
    /\ uuidMounted /\ uuidTab = "generate"
    /\ \E count \in TypedCounts : uuidCount' = count
    /\ UNCHANGED <<uuidMounted, uuidTab, uuidType, uuidUppercase, uuidHyphens, uuidOutput>>
    /\ UNCHANGED <<extractVars, copyVars, lastHandler>>
    /\ UNCHANGED <<idVars, cronVars, buildVars, pageVars, regexVars>>

SelectCase ==
    /\ uuidMounted /\ uuidTab = "generate"
    /\ \E uppercase \in BOOLEAN : uuidUppercase' = uppercase
    /\ UNCHANGED <<uuidMounted, uuidTab, uuidType, uuidCount, uuidHyphens, uuidOutput>>
    /\ UNCHANGED <<extractVars, copyVars, lastHandler>>
    /\ UNCHANGED <<idVars, cronVars, buildVars, pageVars, regexVars>>

\* the checkbox is disabled for ULID
ToggleHyphens ==
    /\ uuidMounted /\ uuidTab = "generate"
    /\ uuidType # "ulid"
    /\ uuidHyphens' = ~uuidHyphens
    /\ UNCHANGED <<uuidMounted, uuidTab, uuidType, uuidCount, uuidUppercase, uuidOutput>>
    /\ UNCHANGED <<extractVars, copyVars, lastHandler>>
    /\ UNCHANGED <<idVars, cronVars, buildVars, pageVars, regexVars>>

\* the Generate button
HandleGenerate ==
    /\ uuidMounted /\ uuidTab = "generate"
    /\ uuidOutput' = AfterAssignment(handleGenerate(uuidType, uuidCount, uuidUppercase, uuidHyphens),
                                     uuidType, uuidCount, uuidUppercase, uuidHyphens)
    /\ lastHandler' = "handleGenerate"
    /\ UNCHANGED <<uuidMounted, uuidTab, uuidType, uuidCount, uuidUppercase, uuidHyphens>>
    /\ UNCHANGED <<extractVars, copyVars>>
    /\ UNCHANGED <<idVars, cronVars, buildVars, pageVars, regexVars>>

\* the Clear button of the generate tab
UuidHandleClear ==
    /\ uuidMounted /\ uuidTab = "generate"
    /\ uuidOutput' = AfterAssignment(<<>>, uuidType, uuidCount, uuidUppercase, uuidHyphens)
    /\ copySuccess' = FALSE
    /\ lastHandler' = "handleClear"
    /\ UNCHANGED <<uuidMounted, uuidTab, uuidType, uuidCount, uuidUppercase, uuidHyphens>>
    /\ UNCHANGED <<extractVars, copiedField, clipboardWrites, timers, now, copiedAt>>
    /\ UNCHANGED <<idVars, cronVars, buildVars, pageVars, regexVars>>

NextUuidGenerate ==
    \/ UuidMount
    \/ SelectUuidType
    \/ TypeCount
    \/ SelectCase
    \/ ToggleHyphens
    \/ HandleGenerate
    \/ UuidHandleClear

\* what the generate tab shows in place of the list
PlaceholderShown == uuidMounted /\ uuidTab = "generate" /\ Len(uuidOutput) = 0

(***************************************************************************)
(* Properties of the generate tab.                                         *)
(***************************************************************************)
\* C26: the page generates by itself on mount only: after Clear the list
\* of generated IDs is empty, and the placeholder is shown, until Generate
\* is pressed.
C26_ClearedStaysEmpty ==
    lastHandler = "handleClear" => (Len(uuidOutput) = 0 /\ PlaceholderShown)

(***************************************************************************)
(* Timestamp extraction.  extractTimestamp and detectIdentifierType are    *)
(* imported by the page from $lib/utils/uuid; they are written here from   *)
(* their contract.  Of the representations of a valid result only the raw  *)
(* milliseconds are kept; the others are formatted from them by Date.      *)
(***************************************************************************)
LowerCrockfordChars == {ToLowerChar(c) : c \in CrockfordChars}

\* the last millisecond of 9999-12-31 UTC, 253402300799999
MaxTimestamp == Num(15103954, 2087935)

\* the text has the hyphens of the 8-4-4-4-12 form
HasStandardHyphens(text) ==
    /\ Len(text) = 36
    /\ \A i \in {9, 14, 19, 24} : text[i] = "-"

\* exactly 26 characters of the Crockford alphabet, in either case
LooksLikeULID(text) ==
    /\ Len(text) = 26
    /\ \A i \in 1..26 : text[i] \in CrockfordChars \cup LowerCrockfordChars

\* the 32 hexadecimal digits of a UUID text, Absent when it is none
HexDigitsOf(text) ==
    LET digits == IF HasStandardHyphens(text) THEN RemoveHyphens(text) ELSE text
    IN  IF Len(digits) = 32 /\ \A i \in 1..32 : digits[i] \in LowerHexChars \cup UpperHexChars
        THEN Present(digits)
        ELSE Absent

\* detection that ignores the version digit
detectIdentifierTypeAnyVersion(text) ==
    IF LooksLikeULID(text) THEN "ulid"
    ELSE IF HexDigitsOf(text) = Absent THEN "invalid"
    ELSE "uuidv7"

detectIdentifierType(text) ==
    IF LooksLikeULID(text) THEN "ulid"
    ELSE IF HexDigitsOf(text) = Absent THEN "invalid"
    ELSE LET version == HexDigitsOf(text)[1][13]
         IN  IF version = "7" THEN "uuidv7"
             ELSE IF version = "4" THEN "uuidv4"
             ELSE "invalid"

\* a result without a timestamp: error is "empty", "uuidv4", "invalid" or "range"
ExtractionFailure(error) ==
    [valid |-> FALSE, thrown |-> FALSE, type |-> Absent, timestampMs |-> Absent,
     error |-> Present(error)]

\* extractTimestamp ending in an exception
ExtractionThrown ==
    [valid |-> FALSE, thrown |-> TRUE, type |-> Absent, timestampMs |-> Absent,
     error |-> Absent]

ExtractionSuccess(type, timestamp) ==
    [valid |-> TRUE, thrown |-> FALSE, type |-> Present(type),
     timestampMs |-> Present(timestamp), error |-> Absent]

\* the range check against 2^48 - 1 instead
InValidRange48Bits(timestamp) == NumLess(timestamp, TwoPow48)

\* the timestamp lies in [0, 253402300799999]
InValidRange(timestamp) == ~NumLess(MaxTimestamp, timestamp)

\* decodeULIDTimestamp: Absent for the hard error on a character outside the alphabet
decodeULIDTimestamp(text) ==
    IF Len(text) >= 10 /\ \A i \in 1..10 : text[i] \in CrockfordChars \cup LowerCrockfordChars
    THEN Present(DecodeULIDTimestamp(text))
    ELSE Absent

extractTimestamp(text) ==
    LET trimmed == Trim(text)
        type == detectIdentifierType(trimmed)
        decoded == IF type = "ulid" THEN decodeULIDTimestamp(trimmed)
                   ELSE Present(DecodeUUIDv7Timestamp(trimmed))
    IN  IF trimmed = <<>> THEN ExtractionFailure("empty")
        ELSE IF type = "uuidv4" THEN ExtractionFailure("uuidv4")
        ELSE IF type = "invalid" THEN ExtractionFailure("invalid")
        ELSE IF decoded = Absent THEN ExtractionThrown
        ELSE IF ~InValidRange(decoded[1]) THEN ExtractionFailure("range")
        ELSE ExtractionSuccess(type, decoded[1])

(***************************************************************************)
(* The extract tab.                                                        *)
(***************************************************************************)
\* texts typed or pasted into the input
CraftedIdentifiers ==
    { <<>>,
      <<" ", " ", " ">>,
      <<"n", "o", "t", "-", "a", "-", "v", "a", "l", "i", "d", "-", "i", "d">>,
      <<"5", "5", "0", "e", "8", "4", "0", "0", "-", "e", "2", "9", "b", "-", "4", "1", "d", "4", "-", "a", "7", "1", "6", "-", "4", "4", "6", "6", "5", "5", "4", "4", "0", "0", "0", "0">>,
      <<"0", "1", "8", "f", "6", "b", "1", "a", "-", "7", "c", "3", "d", "-", "1", "0", "0", "0", "-", "8", "0", "0", "0", "-", "1", "2", "3", "4", "5", "6", "7", "8", "9", "a", "b", "c">>,
      <<"0", "1", "8", "f", "6", "b", "1", "a", "-", "7", "c", "3", "d", "-", "7", "0", "0", "0", "-", "8", "0", "0", "0", "-", "1", "2", "3", "4", "5", "6", "7", "8", "9", "a", "b", "c">>,
      <<"0", "1", "8", "F", "6", "B", "1", "A", "7", "C", "3", "D", "7", "0", "0", "0", "8", "0", "0", "0", "1", "2", "3", "4", "5", "6", "7", "8", "9", "A", "B", "C">>,
      <<"0", "1", "8", "f", "6", "b", "1", "a", "7", "-", "c", "3", "d", "-", "7", "0", "0", "0", "-", "8", "0", "0", "0", "-", "1", "2", "3", "4", "5", "6", "7", "8", "9", "a", "b", "c">>,
      <<"e", "6", "7", "7", "d", "2", "1", "f", "-", "d", "b", "f", "f", "-", "7", "0", "0", "0", "-", "8", "0", "0", "0", "-", "0", "0", "0", "0", "0", "0", "0", "0", "0", "0", "0", "0">>,
      <<"e", "6", "7", "7", "d", "2", "1", "f", "-", "d", "c", "0", "0", "-", "7", "0", "0", "0", "-", "8", "0", "0", "0", "-", "0", "0", "0", "0", "0", "0", "0", "0", "0", "0", "0", "0">>,
      <<"f", "f", "f", "f", "f", "f", "f", "f", "-", "f", "f", "f", "f", "-", "7", "f", "f", "f", "-", "b", "f", "f", "f", "-", "f", "f", "f", "f", "f", "f", "f", "f", "f", "f", "f", "f">>,
      <<"0", "1", "A", "R", "Z", "3", "N", "D", "E", "K", "T", "S", "V", "4", "R", "R", "F", "F", "Q", "6", "9", "G", "5", "F", "A", "V">>,
      <<"0", "1", "a", "r", "z", "3", "n", "d", "e", "k", "t", "s", "v", "4", "r", "r", "f", "f", "q", "6", "9", "g", "5", "f", "a", "v">>,
      <<"0", "1", "A", "R", "Z", "3", "N", "D", "E", "K", "T", "S", "V", "4", "R", "R", "F", "F", "Q", "6", "9", "G", "5", "F", "A", "U">>,
      <<"7", "6", "E", "Z", "9", "1", "Z", "P", "Z", "Z", "0", "0", "0", "0", "0", "0", "0", "0", "0", "0", "0", "0", "0", "0", "0", "0">>,
      <<"7", "6", "E", "Z", "9", "1", "Z", "Q", "0", "0", "0", "0", "0", "0", "0", "0", "0", "0", "0", "0", "0", "0", "0", "0", "0", "0">>,
      <<"7", "Z", "Z", "Z", "Z", "Z", "Z", "Z", "Z", "Z", "Z", "Z", "Z", "Z", "Z", "Z", "Z", "Z", "Z", "Z", "Z", "Z", "Z", "Z", "Z", "Z">>,
      <<"Z", "Z", "Z", "Z", "Z", "Z", "Z", "Z", "Z", "Z", "Z", "Z", "Z", "Z", "Z", "Z", "Z", "Z", "Z", "Z", "Z", "Z", "Z", "Z", "Z", "Z">> }

\* Date.now() when a sample is loaded: the clocks of the generator's calls
SampleClocks == ClockSamples

\* the random streams of the samples
SampleSeeds == {PageSeed, [fill |-> 255, val |-> 90, shift |-> 0]}

\* the extract input is typed or pasted, while no result is shown
TypeExtractInput ==
    /\ uuidMounted /\ uuidTab = "extract"
    /\ extractResult = Absent
    /\ \E text \in CraftedIdentifiers : extractInput' = text
    /\ generatedFrom' = Absent
    /\ lastHandler' = "input"
    /\ UNCHANGED <<uuidMounted, uuidTab, generateVars, extractResult, copyVars>>
    /\ UNCHANGED <<idVars, cronVars, buildVars, pageVars, regexVars>>

\* an identifier made with the format options of the generate tab is pasted
\* into the input, while no result is shown
PasteGenerated ==
    /\ uuidMounted /\ uuidTab = "extract"
    /\ extractResult = Absent
    /\ \E type \in {"uuidv7", "ulid"}, options \in FormatOptions, clock \in SampleClocks :
         LET draw == Draw(type, clock, 0, PageSeed, 1)
         IN  /\ extractInput' = GenerateOne(type, options, draw)
             /\ generatedFrom' = Present([type |-> type, timestamp |-> draw.timestamp,
                                          sample |-> FALSE])
    /\ lastHandler' = "input"
    /\ UNCHANGED <<uuidMounted, uuidTab, generateVars, extractResult, copyVars>>
    /\ UNCHANGED <<idVars, cronVars, buildVars, pageVars, regexVars>>

\* the Extract button and the Enter key
HandleExtract ==
    /\ uuidMounted /\ uuidTab = "extract"
    /\ extractResult' = Present(extractTimestamp(extractInput))
    /\ lastHandler' = "handleExtract"
    /\ UNCHANGED <<uuidMounted, uuidTab, generateVars, extractInput, generatedFrom, copyVars>>
    /\ UNCHANGED <<idVars, cronVars, buildVars, pageVars, regexVars>>

\* loadSampleUUIDv7 and loadSampleULID with the clock and the random stream
LoadSample(type, clock, seed) ==
    /\ uuidMounted /\ uuidTab = "extract"
    /\ LET draw == Draw(type, clock, 0, seed, 1)
           id == IF type = "ulid" THEN generateULID(draw.timestamp, draw.random)
                 ELSE generateUUIDv7(draw.timestamp, draw.random)
       IN  /\ extractInput' = id
           /\ extractResult' = Present(extractTimestamp(id))
           /\ generatedFrom' = Present([type |-> type, timestamp |-> draw.timestamp,
                                        sample |-> TRUE])
    /\ lastHandler' = IF type = "ulid" THEN "loadSampleULID" ELSE "loadSampleUUIDv7"
    /\ UNCHANGED <<uuidMounted, uuidTab, generateVars, copyVars>>
    /\ UNCHANGED <<idVars, cronVars, buildVars, pageVars, regexVars>>

LoadSampleUUIDv7 == \E clock \in SampleClocks, seed \in SampleSeeds : LoadSample("uuidv7", clock, seed)

LoadSampleULID == \E clock \in SampleClocks, seed \in SampleSeeds : LoadSample("ulid", clock, seed)

\* the Clear button of the extract tab
HandleExtractClear ==
    /\ uuidMounted /\ uuidTab = "extract"
    /\ extractInput' = <<>>
    /\ extractResult' = Absent
    /\ copiedField' = Absent
    /\ copiedAt' = Absent
    /\ generatedFrom' = Absent
    /\ lastHandler' = "handleExtractClear"
    /\ UNCHANGED <<uuidMounted, uuidTab, generateVars, copySuccess, clipboardWrites, timers, now>>
    /\ UNCHANGED <<idVars, cronVars, buildVars, pageVars, regexVars>>

NextUuidExtract ==
    \/ UuidMount
    \/ ShowExtractTab
    \/ ShowGenerateTab
    \/ TypeExtractInput
    \/ PasteGenerated
    \/ HandleExtract
    \/ LoadSampleUUIDv7
    \/ LoadSampleULID
    \/ HandleExtractClear

\* the result shown was extracted from the text now in the input
ResultOfInput ==
    /\ extractResult # Absent
    /\ lastHandler \in {"handleExtract", "loadSampleUUIDv7", "loadSampleULID"}

(***************************************************************************)
(* Properties of timestamp extraction.                                     *)
(***************************************************************************)
\* the timestamp characters of the input, decoded
DecodedTimestamp(text) ==
    IF detectIdentifierType(Trim(text)) = "ulid" THEN DecodeULIDTimestamp(Trim(text))
    ELSE DecodeUUIDv7Timestamp(Trim(text))

C22_RangeRejection ==
    ResultOfInput =>
        LET result == extractResult[1]
            type == detectIdentifierType(Trim(extractInput))
        IN  /\ ~result.thrown
            /\ result.valid =>
                   /\ type \in {"ulid", "uuidv7"}
                   /\ result.timestampMs = Present(DecodedTimestamp(extractInput))
                   /\ ~NumLess(MaxTimestamp, DecodedTimestamp(extractInput))
            /\ (type \in {"ulid", "uuidv7"} /\ NumLess(MaxTimestamp, DecodedTimestamp(extractInput))) =>
                   /\ ~result.valid
                   /\ result.error = Present("range")
            /\ result.error = Present("range") => type \in {"ulid", "uuidv7"}
            /\ type = "uuidv4" => result.error = Present("uuidv4")
            /\ (type = "invalid" /\ Trim(extractInput) # <<>>) => result.error = Present("invalid")

\* the ULID of the first millisecond of the year 10000 was extracted: out of range
C22_Witness ==
    /\ ResultOfInput
    /\ extractInput = <<"7", "6", "E", "Z", "9", "1", "Z", "Q", "0", "0", "0", "0", "0", "0", "0", "0", "0", "0", "0", "0", "0", "0", "0", "0", "0", "0">>
    /\ extractResult[1] = ExtractionFailure("range")

(***************************************************************************)
(* The copy buttons of the UUID page.  copyToClipboard is asynchronous:    *)
(* a handler goes on when the clipboard has answered.  Time is counted in  *)
(* milliseconds since the page was mounted and passes in steps of half     *)
(* the delay of the timers; a timer that is due runs before time passes.   *)
(***************************************************************************)
\* the delay of the setTimeout calls of handleCopy and handleCopyField
CopiedDelay == 2000

TimeStep == CopiedDelay \div 2

\* the steps of time followed
MaxTicks == 3

\* the copies that may wait for the clipboard at the same time
MaxPendingCopies == 1

\* the fields of a valid result whose copy buttons are pressed
CopiedFieldNames == {"timestampMs", "iso8601"}

\* Sample ULID is pressed with the clock at PageClock
LoadSampleNow == LoadSample("ulid", PageClock, PageSeed)

\* the Copy All button: handleCopy up to its await
HandleCopy ==
    /\ uuidMounted /\ uuidTab = "generate"
    /\ Len(uuidOutput) # 0
    /\ Cardinality(clipboardWrites) < MaxPendingCopies
    /\ clipboardWrites' = clipboardWrites \cup {[target |-> "copySuccess", field |-> "output"]}
    /\ UNCHANGED <<uuidMounted, uuidTab, generateVars, extractVars, lastHandler>>
    /\ UNCHANGED <<copySuccess, copiedField, timers, now, copiedAt>>
    /\ UNCHANGED <<idVars, cronVars, buildVars, pageVars, regexVars>>

\* a copy button of a valid result: handleCopyField up to its await
HandleCopyField ==
    /\ uuidMounted /\ uuidTab = "extract"
    /\ extractResult # Absent /\ extractResult[1].valid
    /\ Cardinality(clipboardWrites) < MaxPendingCopies
    /\ \E fieldName \in CopiedFieldNames :
         clipboardWrites' = clipboardWrites \cup {[target |-> "copiedField", field |-> fieldName]}
    /\ UNCHANGED <<uuidMounted, uuidTab, generateVars, extractVars, lastHandler>>
    /\ UNCHANGED <<copySuccess, copiedField, timers, now, copiedAt>>
    /\ UNCHANGED <<idVars, cronVars, buildVars, pageVars, regexVars>>

\* the timers after handleCopyField has set copiedField
AfterCopyField(pending, at) ==
    pending \cup {[target |-> "copiedField", due |-> at + CopiedDelay]}

\* the clipboard answers: the handler that waited goes on
ClipboardAnswers ==
    /\ \E write \in clipboardWrites, success \in BOOLEAN :
        /\ clipboardWrites' = clipboardWrites \ {write}
        /\ IF ~success
           THEN UNCHANGED <<copySuccess, copiedField, timers, copiedAt>>
           ELSE IF write.target = "copiedField"
           THEN /\ copiedField' = Present(write.field)
                /\ timers' = AfterCopyField(timers, now)
                /\ copiedAt' = Present([field |-> write.field, at |-> now])
                /\ UNCHANGED copySuccess
           ELSE /\ copySuccess' = TRUE
                /\ timers' = timers \cup {[target |-> "copySuccess", due |-> now + CopiedDelay]}
                /\ UNCHANGED <<copiedField, copiedAt>>
    /\ UNCHANGED <<uuidMounted, uuidTab, generateVars, extractVars, lastHandler, now>>
    /\ UNCHANGED <<idVars, cronVars, buildVars, pageVars, regexVars>>

\* a timer that is due runs its callback
TimerFires ==
    /\ \E timer \in timers :
        /\ timer.due <= now
        /\ timers' = timers \ {timer}
        /\ IF timer.target = "copiedField"
           THEN copiedField' = Absent /\ UNCHANGED copySuccess
           ELSE copySuccess' = FALSE /\ UNCHANGED copiedField
    /\ UNCHANGED <<uuidMounted, uuidTab, generateVars, extractVars, lastHandler>>
    /\ UNCHANGED <<clipboardWrites, now, copiedAt>>
    /\ UNCHANGED <<idVars, cronVars, buildVars, pageVars, regexVars>>

\* time passes
Tick ==
    /\ uuidMounted
    /\ \A timer \in timers : timer.due > now
    /\ now + TimeStep <= MaxTicks * TimeStep
    /\ now' = now + TimeStep
    /\ UNCHANGED <<uuidMounted, uuidTab, generateVars, extractVars, lastHandler>>
    /\ UNCHANGED <<copySuccess, copiedField, clipboardWrites, timers, copiedAt>>
    /\ UNCHANGED <<idVars, cronVars, buildVars, pageVars, regexVars>>

NextUuidCopy ==
    \/ UuidMount
    \/ ShowExtractTab
    \/ ShowGenerateTab
    \/ LoadSampleNow
    \/ HandleCopy
    \/ HandleCopyField
    \/ ClipboardAnswers
    \/ TimerFires
    \/ Tick
    \/ HandleExtractClear
    \/ UuidHandleClear

\* the indicator shown next to a field of the result
CopiedIndicatorShown(fieldName) ==
    /\ uuidTab = "extract"
    /\ extractResult # Absent /\ extractResult[1].valid
    /\ copiedField = Present(fieldName)

(***************************************************************************)
(* Properties of the copy buttons.                                         *)
(***************************************************************************)
\* C30: after a successful copy of a field its indicator stays set for the
\* 2000 ms that follow: no timer of an earlier copy clears it.
C30_IndicatorStays ==
    (copiedAt # Absent /\ now < copiedAt[1].at + CopiedDelay) =>
        copiedField = Present(copiedAt[1].field)

(***************************************************************************)
(* The specifications: the generator, the cron engine, the cron builder,   *)
(* the two tabs of the cron page, the regex tester, and the two tabs and   *)
(* the copy buttons of the UUID page start from the same state and differ  *)
(* in what is called.                                                      *)
(***************************************************************************)
Init == IdIdle /\ CronIdle /\ BuildIdle /\ PageIdle /\ RegexIdle /\ UuidPageIdle

SpecId == Init /\ [][NextId]_vars

SpecCron == Init /\ [][NextCron]_vars

SpecBuild == Init /\ [][NextBuild]_vars

SpecParserTab == Init /\ [][NextParserTab]_vars

SpecBuilderTab == Init /\ [][NextBuilderTab]_vars

SpecRegex == Init /\ [][NextRegex]_vars

SpecUuidGenerate == Init /\ [][NextUuidGenerate]_vars

SpecUuidExtract == Init /\ [][NextUuidExtract]_vars

SpecUuidCopy == Init /\ [][NextUuidCopy]_vars

====
